---- MODULE Spec2Model ----
(***************************************************************************)
(* Certificate verification: the fusion and decision engine                *)
(* (backend/app/services/fusion_engine.py) and the collaborators whose     *)
(* results it consumes.                                                    *)
(*                                                                         *)
(* Numbers.  Python floats in [0,1] are modelled as exact rationals.  A    *)
(* score s is the integer s * One, with One = 1200, so that the average of *)
(* up to four field confidences and the mean of two authenticity scores    *)
(* stay integral for inputs that are whole percents.  A fusion weight w is *)
(* the integer w * 100, and overall_score, a sum of score * weight, is the *)
(* integer overall * One * 100.                                            *)
(*                                                                         *)
(* fusion_engine.py names List and Tuple in the annotations of three       *)
(* methods without importing them; the methods are modelled as written.    *)
(***************************************************************************)
EXTENDS Integers, Sequences, FiniteSets, TLC

VARIABLES
    pc,             \* position of verify_certificate
    l1,             \* layer1_result   (ExtractedFields)
    l2,             \* layer2_result   (ForensicAnalysis)
    l3,             \* layer3_result   (SignatureVerification)
    qr,             \* qr_result       (QRIntegrityCheck)
    db_check,       \* db_check        (dict returned by check_certificate_database)
    risk,           \* risk_score      (RiskScore)
    decision,       \* (status, requires_review, escalation_reasons, decision_rationale)
    attestation,    \* attestation returned by _generate_enhanced_attestation, or None
    verifications,  \* rows inserted into table "verifications"
    attestations,   \* rows inserted into table "attestations"
    done,           \* stages whose call has returned to verify_certificate
    failed,         \* stages and steps that hit an error
    \* Layer2ForensicsService.analyze_image
    l2_pc,          \* position of analyze_image
    image,          \* the image under analysis
    reference_hash, \* the reference hash handed to analyze_image
    results,        \* results of asyncio.gather, one per task
    suspicious_regions, \* what _find_suspicious_regions returned
    analysis,       \* the ForensicAnalysis that analyze_image returns
    l2_failed,      \* tasks and steps of analyze_image that hit an error
    \* QRIntegrityService
    institution_keys,   \* self.institution_keys: issuer id -> keys
    registry_id,        \* which dict object self.institution_keys is bound to
    signed_payload,     \* the signed payload generate_certificate_qr returned last
    qr_image_data,      \* the content of the QR image generated last
    qr_data,            \* the scan content handed to verify_qr_integrity last
    qr_integrity,       \* what verify_qr_integrity returned for qr_data
    qr_checks           \* how many times in a row qr_data has been verified

\* the state of verify_certificate
fusionVars == <<pc, l1, l2, l3, qr, db_check, risk, decision, attestation,
                verifications, attestations, done, failed>>

\* the state of one call of analyze_image
forensicsVars == <<l2_pc, image, reference_hash, results, suspicious_regions,
                   analysis, l2_failed>>

\* the state of the QR integrity service
qrVars == <<institution_keys, registry_id, signed_payload, qr_image_data, qr_data,
            qr_integrity, qr_checks>>

\* the state of the services that verify_certificate calls
serviceVars == <<forensicsVars, qrVars>>

vars == <<fusionVars, serviceVars>>

-----------------------------------------------------------------------------
(* Scores *)

Pct(p) == 12 * p                \* the score p/100
One == Pct(100)                 \* the score 1.0
Weighted(s) == 100 * s          \* a score in the unit of overall_score

Abs(x) == IF x < 0 THEN -x ELSE x
Max(a, b) == IF a >= b THEN a ELSE b
Min(a, b) == IF a <= b THEN a ELSE b

None == "None"                  \* Python's None
\* Optional[bool]: None, True, False
OptBool == {None, "True", "False"}
Truthy(b) == b = "True"
IsFalse(b) == b = "False"

\* list.append under a condition
AppendIf(s, cond, e) == IF cond THEN Append(s, e) ELSE s

-----------------------------------------------------------------------------
(* models.py *)

VerificationStatus ==
    [PENDING |-> "pending", VERIFIED |-> "verified", FAILED |-> "failed",
     REQUIRES_REVIEW |-> "requires_review", TAMPERED |-> "tampered",
     SIGNATURE_INVALID |-> "signature_invalid"]

RiskLevel == [LOW |-> "low", MEDIUM |-> "medium", HIGH |-> "high", CRITICAL |-> "critical"]

TamperType == {"copy_move", "double_compression", "splicing", "resampling",
               "noise_inconsistency", "ela_anomaly", "hash_mismatch"}

ExtractionMethod == {"donut_primary", "ocr_fallback", "vlm_fallback", "manual_override"}

\* QRIntegrityCheck() with every field at its default
QRIntegrityCheckDefault ==
    [qr_detected |-> FALSE, qr_decoded |-> FALSE, signature_valid |-> FALSE,
     issuer_verified |-> FALSE, certificate_id_match |-> FALSE,
     issue_date_match |-> FALSE, error_message |-> None]

\* SignatureVerification() with every field at its default
SignatureVerificationDefault ==
    [seals_detected |-> 0, signatures_detected |-> 0,
     seal_authenticity_score |-> 0, signature_authenticity_score |-> 0,
     qr_signature_valid |-> None, qr_issuer_verified |-> None]

\* ExtractedFields() with every field at its default; present is the set of
\* core fields holding a non-empty value
ExtractedFieldsDefault ==
    [present |-> {}, field_confidences |-> <<>>, extraction_method |-> "donut_primary",
     qr_payload |-> None, extraction_error |-> FALSE]

-----------------------------------------------------------------------------
(* EnhancedFusionEngine.__init__ *)

fusion_weights ==
    [extraction_confidence |-> 25, database_match |-> 30, forensic_score |-> 25,
     signature_score |-> 15, qr_integrity |-> 5]

decision_thresholds ==
    [auto_approve |-> Weighted(Pct(85)), manual_review |-> Weighted(Pct(60)),
     auto_reject |-> Weighted(Pct(30))]

-----------------------------------------------------------------------------
(* Risk scoring *)

CoreFields == {"name", "certificate_id", "institution", "course_name"}

RECURSIVE SumConfidence(_, _)
\* total_confidence over the given fields; a field without an entry counts 0.5
SumConfidence(fields, fc) ==
    IF fields = {} THEN 0
    ELSE LET f == CHOOSE x \in fields : TRUE
         IN (IF f \in DOMAIN fc THEN fc[f] ELSE Pct(50)) + SumConfidence(fields \ {f}, fc)

CalculateExtractionConfidence(e) ==
    IF DOMAIN e.field_confidences = {} THEN Pct(50)
    ELSE LET valid == e.present \cap CoreFields
         IN SumConfidence(valid, e.field_confidences) \div Max(Cardinality(valid), 1)

\* _calculate_qr_integrity_score without the cap at 1.0
CalculateQRIntegrityScore_Uncapped(q) ==
    IF ~q.qr_detected THEN Pct(50)
    ELSE IF ~q.qr_decoded THEN Pct(20)
    ELSE Pct(50)
         + (IF q.signature_valid THEN Pct(30) ELSE 0)
         + (IF q.issuer_verified THEN Pct(20) ELSE 0)
         + (IF q.certificate_id_match THEN Pct(10) ELSE 0)
         + (IF q.issue_date_match THEN Pct(10) ELSE 0)

CalculateQRIntegrityScore(q) ==
    IF ~q.qr_detected THEN Pct(50)
    ELSE IF ~q.qr_decoded THEN Pct(20)
    ELSE Min(Pct(50)
             + (IF q.signature_valid THEN Pct(30) ELSE 0)
             + (IF q.issuer_verified THEN Pct(20) ELSE 0)
             + (IF q.certificate_id_match THEN Pct(10) ELSE 0)
             + (IF q.issue_date_match THEN Pct(10) ELSE 0),
             One)

\* (seal_authenticity_score + signature_authenticity_score) / 2.0
SignatureScore(s) == (s.seal_authenticity_score + s.signature_authenticity_score) \div 2

\* _collect_risk_factors without the risk factor for discrepancies with the database
CollectRiskFactors_NoDiscrepancies(lr, db) ==
    LET e == lr.layer1_extraction
        f == lr.layer2_forensics
        s == lr.layer3_signatures
        r1 == AppendIf(<<>>, e.extraction_method # "donut_primary",
                       "Primary extraction method failed")
        r2 == AppendIf(r1, CalculateExtractionConfidence(e) < Pct(70),
                       "Low field extraction confidence")
        r3 == AppendIf(r2, f.tamper_probability > Pct(50),
                       "High tampering probability detected")
        r4 == AppendIf(r3, f.tamper_types # {}, "Tampering indicators")
        r5 == AppendIf(r4, IsFalse(f.hash_match), "Image hash mismatch")
        r6 == AppendIf(r5, s.seals_detected = 0, "No institutional seals detected")
        r7 == AppendIf(r6, s.signatures_detected = 0, "No signatures detected")
        r8 == AppendIf(r7, ~Truthy(s.qr_signature_valid), "QR signature invalid")
    IN  AppendIf(r8, ~db.match_found, "No database match found")

CollectRiskFactors(lr, db) ==
    LET e == lr.layer1_extraction
        f == lr.layer2_forensics
        s == lr.layer3_signatures
        r1 == AppendIf(<<>>, e.extraction_method # "donut_primary",
                       "Primary extraction method failed")
        r2 == AppendIf(r1, CalculateExtractionConfidence(e) < Pct(70),
                       "Low field extraction confidence")
        r3 == AppendIf(r2, f.tamper_probability > Pct(50),
                       "High tampering probability detected")
        r4 == AppendIf(r3, f.tamper_types # {}, "Tampering indicators")
        r5 == AppendIf(r4, IsFalse(f.hash_match), "Image hash mismatch")
        r6 == AppendIf(r5, s.seals_detected = 0, "No institutional seals detected")
        r7 == AppendIf(r6, s.signatures_detected = 0, "No signatures detected")
        r8 == AppendIf(r7, ~Truthy(s.qr_signature_valid), "QR signature invalid")
        r9 == AppendIf(r8, ~db.match_found, "No database match found")
    IN  AppendIf(r9, db.discrepancies # <<>>, "Field discrepancies with database")

CollectAuthenticityIndicators(lr, db) ==
    LET e == lr.layer1_extraction
        f == lr.layer2_forensics
        s == lr.layer3_signatures
        a1 == AppendIf(<<>>, e.extraction_method = "donut_primary",
                       "Primary AI extraction successful")
        a2 == AppendIf(a1, e.qr_payload # None, "QR code detected and decoded")
        a3 == AppendIf(a2, f.tamper_probability < Pct(30), "Low tampering probability")
        a4 == AppendIf(a3, Truthy(f.hash_match), "Image hash verification passed")
        a5 == AppendIf(a4, s.seals_detected > 0, "institutional seal(s) detected")
        a6 == AppendIf(a5, s.signatures_detected > 0, "signature(s) detected")
        a7 == AppendIf(a6, Truthy(s.qr_signature_valid), "QR digital signature verified")
        a8 == AppendIf(a7, db.match_found, "Database record match found")
    IN  AppendIf(a8, db.confidence > Pct(80), "High confidence database match")

CalculateConfidenceScore(lr, overall_score) ==
    LET forensic_score == One - lr.layer2_forensics.tamper_probability
        signature_score == SignatureScore(lr.layer3_signatures)
        qr_score == CalculateQRIntegrityScore(lr.qr_integrity)
        c1 == One - (IF Abs(Weighted(forensic_score) - overall_score) > Weighted(Pct(30))
                     THEN Pct(20) ELSE 0)
        c2 == c1 - (IF Abs(Weighted(signature_score) - overall_score) > Weighted(Pct(30))
                    THEN Pct(20) ELSE 0)
        c3 == c2 - (IF qr_score > Pct(50)
                       /\ Abs(Weighted(qr_score) - overall_score) > Weighted(Pct(40))
                    THEN Pct(10) ELSE 0)
    IN  Max(c3, Pct(10))

RiskLevelOf(overall_score) ==
    IF overall_score >= Weighted(Pct(80)) THEN RiskLevel.LOW
    ELSE IF overall_score >= Weighted(Pct(60)) THEN RiskLevel.MEDIUM
    ELSE IF overall_score >= Weighted(Pct(40)) THEN RiskLevel.HIGH
    ELSE RiskLevel.CRITICAL

\* the RiskScore of the except branch
RiskScoreFallback ==
    [extraction_confidence |-> 0, database_match_score |-> 0, forensic_score |-> 0,
     signature_score |-> 0, qr_integrity_score |-> 0,
     overall_score |-> Weighted(Pct(50)), confidence |-> 0, risk_level |-> RiskLevel.HIGH,
     risk_factors |-> <<"Risk calculation error">>, authenticity_indicators |-> <<>>,
     fusion_weights |-> fusion_weights]

\* the constraints ge=0.0, le=1.0 of a score field of RiskScore
InUnit(s) == 0 <= s /\ s <= One

CalculateEnhancedRiskScore(lr, db) ==
    LET extraction_confidence == CalculateExtractionConfidence(lr.layer1_extraction)
        database_match_score == IF db.match_found THEN db.confidence ELSE 0
        forensic_score == One - lr.layer2_forensics.tamper_probability
        signature_score == SignatureScore(lr.layer3_signatures)
        qr_integrity_score == CalculateQRIntegrityScore(lr.qr_integrity)
        overall_score ==
              extraction_confidence * fusion_weights.extraction_confidence
            + database_match_score * fusion_weights.database_match
            + forensic_score * fusion_weights.forensic_score
            + signature_score * fusion_weights.signature_score
            + qr_integrity_score * fusion_weights.qr_integrity
        confidence == CalculateConfidenceScore(lr, overall_score)
    IN  IF /\ InUnit(extraction_confidence) /\ InUnit(database_match_score)
           /\ InUnit(forensic_score) /\ InUnit(signature_score)
           /\ InUnit(qr_integrity_score) /\ InUnit(confidence)
           /\ 0 <= overall_score /\ overall_score <= Weighted(One)
        THEN [extraction_confidence |-> extraction_confidence,
              database_match_score |-> database_match_score,
              forensic_score |-> forensic_score,
              signature_score |-> signature_score,
              qr_integrity_score |-> qr_integrity_score,
              overall_score |-> overall_score,
              confidence |-> confidence,
              risk_level |-> RiskLevelOf(overall_score),
              risk_factors |-> CollectRiskFactors(lr, db),
              authenticity_indicators |-> CollectAuthenticityIndicators(lr, db),
              fusion_weights |-> fusion_weights]
        ELSE RiskScoreFallback

-----------------------------------------------------------------------------
(* Decision engine *)


\* CheckTamperRejectionCriteria with the count of tamper types compared by > 3
CheckTamperRejectionCriteria_OffByOne(lr) ==
    LET forensics == lr.layer2_forensics
    IN  \/ forensics.tamper_probability > Pct(80)
        \/ IsFalse(forensics.hash_match)
        \/ Cardinality(forensics.tamper_types) > 3

CheckTamperRejectionCriteria(lr) ==
    LET forensics == lr.layer2_forensics
    IN  \/ forensics.tamper_probability > Pct(80)
        \/ IsFalse(forensics.hash_match)
        \/ Cardinality(forensics.tamper_types) >= 3


\* CheckSignatureRejectionCriteria without the test that no QR code was detected
CheckSignatureRejectionCriteria_NoQRTest(lr) ==
    LET signatures == lr.layer3_signatures
    IN  \/ /\ lr.qr_integrity.qr_detected
           /\ lr.qr_integrity.qr_decoded
           /\ ~lr.qr_integrity.signature_valid
        \/ /\ signatures.seals_detected = 0
           /\ signatures.signatures_detected = 0

CheckSignatureRejectionCriteria(lr) ==
    LET signatures == lr.layer3_signatures
    IN  \/ /\ lr.qr_integrity.qr_detected
           /\ lr.qr_integrity.qr_decoded
           /\ ~lr.qr_integrity.signature_valid
        \/ /\ signatures.seals_detected = 0
           /\ signatures.signatures_detected = 0
           /\ ~lr.qr_integrity.qr_detected

Decision(status, requires_review, escalation_reasons, decision_rationale) ==
    [status |-> status, requires_manual_review |-> requires_review,
     escalation_reasons |-> escalation_reasons, decision_rationale |-> decision_rationale]


\* ReviewReasons with the confidence compared by <= 0.6
ReviewReasons_Inclusive(risk_score, db) ==
    LET e1 == AppendIf(<<>>, risk_score.confidence <= Pct(60), "Low confidence in assessment")
        e2 == AppendIf(e1, ~db.match_found, "No database match")
    IN  AppendIf(e2, risk_score.risk_level \in {RiskLevel.HIGH, RiskLevel.CRITICAL},
                 "High risk level detected")

\* ReviewReasons without the reason for a high or critical risk level
ReviewReasons_NoRiskLevel(risk_score, db) ==
    LET e1 == AppendIf(<<>>, risk_score.confidence < Pct(60), "Low confidence in assessment")
    IN  AppendIf(e1, ~db.match_found, "No database match")

\* the escalation reasons of the manual-review branch
ReviewReasons(risk_score, db) ==
    LET e1 == AppendIf(<<>>, risk_score.confidence < Pct(60), "Low confidence in assessment")
        e2 == AppendIf(e1, ~db.match_found, "No database match")
    IN  AppendIf(e2, risk_score.risk_level \in {RiskLevel.HIGH, RiskLevel.CRITICAL},
                 "High risk level detected")


\* IsAutoApprove without the confidence test
IsAutoApprove_NoConfidence(risk_score) ==
    risk_score.overall_score >= decision_thresholds.auto_approve

\* IsAutoApprove with the confidence compared by > 0.8
IsAutoApprove_StrictConfidence(risk_score) ==
    /\ risk_score.overall_score >= decision_thresholds.auto_approve
    /\ risk_score.confidence > Pct(80)

\* the condition of the high-confidence branch
IsAutoApprove(risk_score) ==
    /\ risk_score.overall_score >= decision_thresholds.auto_approve
    /\ risk_score.confidence >= Pct(80)


\* IsAutoReject with the score compared by < 0.30
IsAutoReject_Strict(risk_score) ==
    risk_score.overall_score < decision_thresholds.auto_reject

\* IsAutoReject with the comparison turned round
IsAutoReject_Flipped(risk_score) ==
    risk_score.overall_score >= decision_thresholds.auto_reject

\* the condition of the low-confidence branch
IsAutoReject(risk_score) ==
    risk_score.overall_score <= decision_thresholds.auto_reject

MakeVerificationDecision(risk_score, lr, db) ==
    IF CheckTamperRejectionCriteria(lr)
    THEN Decision(VerificationStatus.TAMPERED, TRUE,
                  <<"Tampering detected", "Requires expert review">>,
                  "Certificate rejected due to tampering indicators")
    ELSE IF CheckSignatureRejectionCriteria(lr)
    THEN Decision(VerificationStatus.SIGNATURE_INVALID, TRUE,
                  <<"Invalid digital signatures", "QR verification failed">>,
                  "Certificate rejected due to invalid digital signatures")
    ELSE IF IsAutoApprove(risk_score)
    THEN IF risk_score.risk_factors = <<>>
         THEN Decision(VerificationStatus.VERIFIED, FALSE, <<>>,
                       "High confidence verification")
         ELSE Decision(VerificationStatus.REQUIRES_REVIEW, TRUE,
                       <<"Risk factors present despite high score">>,
                       "High score but risk factors require review")
    ELSE IF IsAutoReject(risk_score)
    THEN Decision(VerificationStatus.FAILED, TRUE, <<"Low confidence score">>,
                  "Low confidence rejection")
    ELSE Decision(VerificationStatus.REQUIRES_REVIEW, TRUE,
                  ReviewReasons(risk_score, db), "Manual review required")

-----------------------------------------------------------------------------
(* Results the collaborators can hand to the engine *)

MaxSeals == 1           \* seals_detected ranges over 0..MaxSeals
MaxSignatures == 1      \* signatures_detected ranges over 0..MaxSignatures

ForensicAnalysis(tamper_probability, hash_match, tamper_types) ==
    [tamper_probability |-> tamper_probability, hash_match |-> hash_match,
     tamper_types |-> tamper_types]

\* the report of analyze_image's except branch
ForensicAnalysisFailure == ForensicAnalysis(Pct(50), None, {})

ForensicReports ==
    { ForensicAnalysis(0, None, {}),
      ForensicAnalysis(0, "True", {}),
      ForensicAnalysis(Pct(80), "True", {"copy_move", "ela_anomaly"}),
      ForensicAnalysis(Pct(81), None, {}),
      ForensicAnalysis(Pct(30), "False", {"hash_mismatch"}),
      ForensicAnalysis(Pct(60), None, {"copy_move", "ela_anomaly", "noise_inconsistency"}) }

QRIntegrityCheck(decoded, signature_valid, issuer_verified, id_match, date_match, error) ==
    [qr_detected |-> TRUE, qr_decoded |-> decoded, signature_valid |-> signature_valid,
     issuer_verified |-> issuer_verified, certificate_id_match |-> id_match,
     issue_date_match |-> date_match, error_message |-> error]

\* what verify_qr_integrity returns: its except branch, then decoded payloads
QRResults ==
    { QRIntegrityCheck(FALSE, FALSE, FALSE, FALSE, FALSE, "error"),
      QRIntegrityCheck(TRUE, FALSE, FALSE, FALSE, FALSE, None),
      QRIntegrityCheck(TRUE, FALSE, TRUE, TRUE, TRUE, None),
      QRIntegrityCheck(TRUE, TRUE, FALSE, TRUE, FALSE, None),
      QRIntegrityCheck(TRUE, TRUE, TRUE, TRUE, TRUE, None) }

SignatureVerification(seals, signatures, seal_score, signature_score, qr_valid) ==
    [seals_detected |-> seals, signatures_detected |-> signatures,
     seal_authenticity_score |-> seal_score, signature_authenticity_score |-> signature_score,
     qr_signature_valid |-> qr_valid, qr_issuer_verified |-> qr_valid]

\* what verify_seals_and_signatures returns; the default is its except branch
SignatureResults ==
    { SignatureVerificationDefault,
      SignatureVerification(0, 0, 0, 0, "False"),
      SignatureVerification(1, 0, Pct(60), 0, "False"),
      SignatureVerification(1, 1, One, One, "False"),
      SignatureVerification(1, 1, One, One, "True") }

ExtractedFields(present, field_confidences, method, qr_payload, error) ==
    [present |-> present, field_confidences |-> field_confidences,
     extraction_method |-> method, qr_payload |-> qr_payload, extraction_error |-> error]

\* what extract_fields returns: its except branch, a confident Donut extraction with
\* and without a QR payload, an OCR fusion with one unscored field, and a VLM result
\* whose confidence lies outside [0,1] (field_confidences is an unvalidated dict)
ExtractionResults ==
    { ExtractedFields({}, <<>>, "donut_primary", None, TRUE),
      ExtractedFields(CoreFields, [f \in CoreFields |-> One], "donut_primary", "payload", FALSE),
      ExtractedFields(CoreFields, [f \in CoreFields |-> One], "donut_primary", None, FALSE),
      ExtractedFields({"name", "certificate_id", "institution"},
                      [f \in {"name", "certificate_id"} |->
                          IF f = "name" THEN Pct(90) ELSE Pct(60)],
                      "ocr_fallback", "payload", FALSE),
      ExtractedFields({"name"}, [f \in {"name"} |-> Pct(150)], "vlm_fallback", None, FALSE) }

DatabaseCheck(match_found, confidence, discrepancies, error) ==
    [match_found |-> match_found, confidence |-> confidence,
     discrepancies |-> discrepancies, error |-> error]

\* what check_certificate_database returns: no match, its except branch, a full match,
\* a match on three fields of four
DatabaseResults ==
    { DatabaseCheck(FALSE, 0, <<>>, FALSE),
      DatabaseCheck(FALSE, 0, <<>>, TRUE),
      DatabaseCheck(TRUE, One, <<>>, FALSE),
      DatabaseCheck(TRUE, Pct(75), <<"name">>, FALSE) }

\* the LayerResults built from the four layer results
LayerResults(e, f, s, q) ==
    [layer1_extraction |-> e, layer2_forensics |-> f, layer3_signatures |-> s,
     qr_integrity |-> q]

-----------------------------------------------------------------------------
(* Layer2ForensicsService: images, hashes and detector scores *)

\* the six detectors, and the seven tasks that analyze_image gathers
Detectors == {"copy_move", "ela", "compression", "noise", "resampling", "jpeg"}
Tasks == Detectors \cup {"hashes"}

\* An image is its pixel content and the encoding of the uploaded file: "pil_png" is
\* the very file that PIL writes for these pixels with format='PNG', "jpeg" is any
\* other file that decodes to them.
Pixels == {"original", "edited"}
FileFormats == {"pil_png", "jpeg"}
Images == [pixels : Pixels, format : FileFormats]
NoImage == [pixels |-> "none", format |-> "none"]

\* byte strings: image.save(img_bytes, format='PNG'), the uploaded image_data, and
\* image.tobytes()
PNGBytes(img) == [encoding |-> "pil_png", pixels |-> img.pixels]
FileBytes(img) == [encoding |-> img.format, pixels |-> img.pixels]
ToBytes(img) == [encoding |-> "raw", pixels |-> img.pixels]
NoBytes == [encoding |-> "none", pixels |-> "none"]

\* hashlib.sha256(data).hexdigest(): equal digests only for equal byte strings
Sha256(data) == [algorithm |-> "sha256", of |-> data]
\* reference_hash = None and reference_hash = ""
NoHash == [algorithm |-> "none", of |-> NoBytes]
EmptyHash == [algorithm |-> "empty", of |-> NoBytes]

\* helpers.generate_image_hash
GenerateImageHash(image_data) == Sha256(image_data)

\* canonical_image_hash of the CertificateResponse for an upload of img
CanonicalImageHash(img) == GenerateImageHash(FileBytes(img))

\* image_hash of create_integrity_hash, which certificate issuance records
IssuanceImageHash(img) == GenerateImageHash(ToBytes(img))

\* _calculate_hashes_sync; the perceptual hash depends on the pixels alone
CalculateHashesSync(img) ==
    [sha256 |-> Sha256(PNGBytes(img)),
     phash |-> [algorithm |-> "phash", of |-> ToBytes(img)]]

\* the {} that the hashing task returns from its except branches
NoHashes == [sha256 |-> NoHash, phash |-> NoHash]

\* what each detector computes for the pixels when nothing fails
DetectorScoresOf(pixels) ==
    IF pixels = "edited"
    THEN [d \in Detectors |->
            CASE d = "copy_move" -> Pct(65)
              [] d = "ela" -> Pct(70)
              [] d = "compression" -> Pct(85)
              [] d = "noise" -> Pct(75)
              [] d = "resampling" -> Pct(60)
              [] OTHER -> Pct(50)]
    ELSE [d \in Detectors |-> 0]

\* what a task returns when nothing fails, and from the except branch of its wrapper
TaskResult(t, img) ==
    IF t = "hashes" THEN CalculateHashesSync(img) ELSE DetectorScoresOf(img.pixels)[t]
TaskDefault(t) == IF t = "hashes" THEN NoHashes ELSE 0

\* an entry of results: the task is pending, has returned a value, or has raised
Outcome(state, value) == [state |-> state, value |-> value]


\* ProcessResult with 0.5, the score of an uncertain report, for a task that raised
ProcessResult_Uncertain(res, t) ==
    IF res[t].state = "raised"
    THEN (IF t = "hashes" THEN NoHashes ELSE Pct(50))
    ELSE res[t].value

\* results[i] if not isinstance(results[i], Exception) else 0.0 (for the hashes: else {})
ProcessResult(res, t) ==
    IF res[t].state = "raised" THEN TaskDefault(t) ELSE res[t].value

\* the weights of _calculate_tamper_probability, in percent
tamper_weights ==
    [copy_move |-> 25, ela |-> 20, compression |-> 15, noise |-> 20,
     resampling |-> 10, jpeg |-> 10]

\* _calculate_tamper_probability
CalculateTamperProbability(s) ==
    Min((  s["copy_move"] * tamper_weights.copy_move
         + s["ela"] * tamper_weights.ela
         + s["compression"] * tamper_weights.compression
         + s["noise"] * tamper_weights.noise
         + s["resampling"] * tamper_weights.resampling
         + s["jpeg"] * tamper_weights.jpeg) \div 100,
        One)

\* _classify_tamper_types
ClassifyTamperTypes(s) ==
       (IF s["copy_move"] > Pct(60) THEN {"copy_move"} ELSE {})
  \cup (IF s["ela"] > Pct(70) THEN {"ela_anomaly"} ELSE {})
  \cup (IF s["compression"] > Pct(80) THEN {"double_compression"} ELSE {})
  \cup (IF s["noise"] > Pct(70) THEN {"noise_inconsistency"} ELSE {})
  \cup (IF s["resampling"] > Pct(60) THEN {"resampling"} ELSE {})


\* CheckHashIntegrity that leaves hash_match unset on a mismatch
CheckHashIntegrity_MatchOnly(reference, hashes) ==
    IF reference \notin {NoHash, EmptyHash} /\ reference = hashes.sha256
    THEN "True"
    ELSE None

\* hash_match: None unless a reference and a computed hash exist
CheckHashIntegrity(reference, hashes) ==
    IF reference \notin {NoHash, EmptyHash} /\ hashes.sha256 # NoHash
    THEN (IF reference = hashes.sha256 THEN "True" ELSE "False")
    ELSE None

\* the ForensicAnalysis with all the fields analyze_image sets
FullForensicAnalysis(scores, hashes, hash_match, regions, tamper_types, tamper_probability) ==
    [copy_move_score |-> scores["copy_move"], ela_score |-> scores["ela"],
     double_compression_score |-> scores["compression"],
     noise_analysis_score |-> scores["noise"],
     sha256_hash |-> hashes.sha256, perceptual_hash |-> hashes.phash,
     hash_match |-> hash_match, suspicious_regions |-> regions,
     tamper_types |-> tamper_types, tamper_probability |-> tamper_probability]

\* ForensicAnalysis() with every field at its default
ForensicAnalysisDefault ==
    FullForensicAnalysis([d \in Detectors |-> 0], NoHashes, None, <<>>, {}, 0)


\* AnalysisFailure with the default tamper_probability
AnalysisFailure_Default == ForensicAnalysisDefault

\* ForensicAnalysis(tamper_probability=0.5, ...) of the except branch of analyze_image
AnalysisFailure == [ForensicAnalysisDefault EXCEPT !.tamper_probability = Pct(50)]

\* lines 80-124 of analyze_image: the report built from the gathered results
BuildAnalysis(reference, res, regions) ==
    LET scores == [d \in Detectors |-> ProcessResult(res, d)]
        hashes == ProcessResult(res, "hashes")
        hash_match == CheckHashIntegrity(reference, hashes)
        tamper_types == ClassifyTamperTypes(scores)
                            \cup (IF IsFalse(hash_match) THEN {"hash_mismatch"} ELSE {})
    IN  FullForensicAnalysis(scores, hashes, hash_match, regions, tamper_types,
                             CalculateTamperProbability(scores))

\* the fields of a report that the fusion engine reads
AsLayer2(a) == ForensicAnalysis(a.tamper_probability, a.hash_match, a.tamper_types)

\* what _find_suspicious_regions returns: no region, or the merged boxes
RegionLists == {<<>>, <<<<8, 8, 24, 24>>>>}

\* analyze_image is not running
ForensicsIdle ==
    /\ l2_pc = "idle"
    /\ image = NoImage
    /\ reference_hash = NoHash
    /\ results = [t \in Tasks |-> Outcome("pending", TaskDefault(t))]
    /\ suspicious_regions = <<>>
    /\ analysis = ForensicAnalysisDefault
    /\ l2_failed = {}

-----------------------------------------------------------------------------
(* QRIntegrityService: keys, payloads, signatures and scan contents *)

\* generate_key_pair: the key pairs that exist; a PEM key is named by its pair
KeyPairs == {"default_key", "univ_x_key", "univ_x_key_2", "univ_y_key"}

PrivateKey(pair) == [kind |-> "private", pair |-> pair]
PublicKey(pair) == [kind |-> "public", pair |-> pair]

\* no public key: a missing "public_key" entry, None or the empty string
NoKey == [kind |-> "none", pair |-> "none"]

\* private_key.public_key(), helpers.py lines 104-111
PublicKeyOf(private_key) == PublicKey(private_key.pair)

InstitutionIds == {"default", "univ-x", "univ-y"}

\* one entry of self.institution_keys (key_id and added_at are not read by any check)
InstitutionKeys(pair) ==
    [private_key |-> PrivateKey(pair), public_key |-> PublicKey(pair)]

\* the (institution_id, keys) that add_institution_key is called with
InstitutionKeyInputs ==
    {<<"univ-x", "univ_x_key">>, <<"univ-x", "univ_x_key_2">>, <<"univ-y", "univ_y_key">>}

\* _load_institution_keys: the registry after construction
LoadInstitutionKeys == [i \in {"default"} |-> InstitutionKeys("default_key")]

\* self.institution_keys.get(institution_id, self.institution_keys["default"])
GetInstitutionKeys(registry, institution_id) ==
    IF institution_id \in DOMAIN registry THEN registry[institution_id]
    ELSE registry["default"]

\* A dict is the sequence of its (key, value) pairs in insertion order.
DictKeys(d) == {d[i][1] : i \in DOMAIN d}

\* d.get(key)
DictGet(d, key) ==
    IF key \in DictKeys(d) THEN d[CHOOSE i \in DOMAIN d : d[i][1] = key][2] ELSE None

\* the keys of a payload in the order sort_keys=True puts them
SortedKeys ==
    <<"certificate_id", "image_hash", "issue_date", "issuer_id", "risk_assessment",
      "verification_id">>

KeyRank(key) == CHOOSE i \in DOMAIN SortedKeys : SortedKeys[i] = key

\* payload_str = json.dumps(payload, sort_keys=True, separators=(',', ':'))
PayloadStr(payload) ==
    SortSeq(payload, LAMBDA a, b : KeyRank(a[1]) < KeyRank(b[1]))

\* certificate_data handed to generate_certificate_qr
CertificateData ==
    { [certificate_id |-> "C1", issue_date |-> "2024-01-15"],
      [certificate_id |-> "C2", issue_date |-> None] }

\* _create_qr_payload: issuer_id, then the fields of core_data that are not None
\* (the "data" level of the payload is flattened; version, type and the time
\* stamps, equal on both sides of every comparison, are left out)
CreateQRPayload(certificate_data, institution_id) ==
    <<<<"issuer_id", institution_id>>>> \o
    SelectSeq(<<<<"certificate_id", certificate_data.certificate_id>>,
                <<"issue_date", certificate_data.issue_date>>>>,
              LAMBDA kv : kv[2] # None)

\* private_key.sign(data.encode(), ec.ECDSA(hashes.SHA256())): the signature bytes,
\* intact until one of them is changed
EcdsaSign(data, private_key) ==
    [data |-> data, pair |-> private_key.pair, intact |-> TRUE]

NoSignatureBytes == [data |-> <<>>, pair |-> "none", intact |-> FALSE]

\* base64 text: the bytes it stands for, and whether it holds anything that
\* b64decode discards (a character outside the alphabet, the unused low bits of
\* the last character before the padding, data after the padding)
B64Encode(bytes) == [bytes |-> bytes, discarded |-> FALSE]

\* base64.b64decode(signature_b64), validate=False
B64Decode(text) == text.bytes

\* no "signature" entry
NoSignature == B64Encode(NoSignatureBytes)

\* sign_data(data, private_key_pem) with a private key: (signature_b64, public_key_pem)
SignData(data, private_key) ==
    <<B64Encode(EcdsaSign(data, private_key)), PublicKeyOf(private_key)>>

\* public_key.verify(signature, data.encode(), ec.ECDSA(hashes.SHA256()))
EcdsaVerify(public_key, signature, data) ==
    /\ signature.intact
    /\ signature.data = data
    /\ signature.pair = public_key.pair

\* verify_signature(data, signature_b64, public_key_pem); any exception gives False
VerifySignature(data, signature_b64, public_key) ==
    /\ public_key.kind = "public"
    /\ EcdsaVerify(public_key, B64Decode(signature_b64), data)

\* a JSON object of the QR service: the keys it has and the values of
\* "payload", "signature" and "public_key"
QRObject(keys, payload, signature, public_key) ==
    [keys |-> keys, payload |-> payload, signature |-> signature,
     public_key |-> public_key]

NoSignedPayload == QRObject({}, <<>>, NoSignature, NoKey)

\* _sign_qr_payload(payload, institution_keys)
SignQRPayload(payload, keys) ==
    LET signed == SignData(PayloadStr(payload), keys.private_key)
    IN QRObject({"payload", "signature", "public_key"}, payload, signed[1], signed[2])

\* generate_verification_qr: verification_payload, not signed
VerificationPayload == QRObject({"type", "verification_id", "url"}, <<>>, NoSignature, NoKey)

\* A text is what json.loads makes of it: the syntax it has, the object it denotes
\* when it is a JSON object, and the certificate id in its path when it is a URL.
Text(syntax, object, certificate_id) ==
    [syntax |-> syntax, object |-> object, certificate_id |-> certificate_id]

NoText == Text("none", NoSignedPayload, "")

\* json.dumps(obj) of a dict with string keys
JsonDumps(object) == Text("object", object, "")

\* f"http://localhost:8000/verify/{certificate_id}/page"
VerificationURL(certificate_id) == Text("url", NoSignedPayload, certificate_id)

\* the texts json.loads accepts: an object, an array, null
JsonSyntax == {"object", "array", "null"}

\* extracted_fields handed to verify_qr_integrity; the first stands for None
NoExtractedFields == [certificate_id |-> None, issue_date |-> None]

ExtractedFieldsInputs ==
    { NoExtractedFields,
      [certificate_id |-> "c1", issue_date |-> "15/01/2024"],
      [certificate_id |-> "C2", issue_date |-> ""] }

\* s.upper().strip() on the certificate ids in use
Upper(s) == IF s = "c1" THEN "C1" ELSE s

\* _normalize_date on the dates in use
NormalizeDate(date_str) ==
    IF date_str = "15/01/2024" THEN "2024-01-15" ELSE date_str

\* d.get(key, "")
DictGetStr(d, key) == IF key \in DictKeys(d) THEN DictGet(d, key) ELSE ""

\* _check_certificate_id_match
CheckCertificateIdMatch(qr_payload, extracted_fields) ==
    LET qr_cert_id == Upper(DictGetStr(qr_payload.payload, "certificate_id"))
    IN /\ extracted_fields.certificate_id # None
       /\ qr_cert_id = Upper(extracted_fields.certificate_id)
       /\ qr_cert_id # ""

\* _check_issue_date_match
CheckIssueDateMatch(qr_payload, extracted_fields) ==
    LET qr_date_norm == NormalizeDate(DictGetStr(qr_payload.payload, "issue_date"))
    IN /\ extracted_fields.issue_date # None
       /\ qr_date_norm = NormalizeDate(extracted_fields.issue_date)
       /\ qr_date_norm # ""

\* _verify_qr_signature: the public key it verifies with
AvailablePublicKey(registry, qr_payload) ==
    LET issuer_id == DictGet(qr_payload.payload, "issuer_id")
    IN IF "public_key" \in qr_payload.keys /\ qr_payload.public_key # NoKey
       THEN qr_payload.public_key
       ELSE IF issuer_id \in DOMAIN registry THEN registry[issuer_id].public_key
            ELSE NoKey

\* _verify_qr_signature with the registered key only
VerifyQRSignature_RegistryKey(registry, qr_payload) ==
    LET issuer_id == DictGet(qr_payload.payload, "issuer_id")
    IN /\ {"signature", "payload"} \subseteq qr_payload.keys
       /\ issuer_id \in DOMAIN registry
       /\ VerifySignature(PayloadStr(qr_payload.payload), qr_payload.signature,
                          registry[issuer_id].public_key)

\* _verify_qr_signature
VerifyQRSignature(registry, qr_payload) ==
    /\ {"signature", "payload"} \subseteq qr_payload.keys
    /\ AvailablePublicKey(registry, qr_payload) # NoKey
    /\ VerifySignature(PayloadStr(qr_payload.payload), qr_payload.signature,
                       AvailablePublicKey(registry, qr_payload))

\* _verify_issuer trusting only what is validly signed
VerifyIssuer_Signed(registry, qr_payload) ==
    /\ VerifyQRSignature(registry, qr_payload)
    /\ DictGet(qr_payload.payload, "issuer_id") \in DOMAIN registry

\* _verify_issuer
VerifyIssuer(registry, qr_payload) ==
    LET issuer_id == DictGet(qr_payload.payload, "issuer_id")
    IN /\ issuer_id # None
       /\ issuer_id # ""
       /\ issuer_id \in DOMAIN registry

\* QRIntegrityCheck() in place of the JSONDecodeError branch
InvalidJSONResult_Default == QRIntegrityCheckDefault

\* verify_qr_integrity, the JSONDecodeError branch
InvalidJSONResult ==
    QRIntegrityCheck(FALSE, FALSE, FALSE, FALSE, FALSE, "Invalid JSON in QR code")

\* verify_qr_integrity, the outer except branch
QRVerificationFailed ==
    QRIntegrityCheck(FALSE, FALSE, FALSE, FALSE, FALSE, "error")

\* verify_qr_integrity(qr_data, extracted_fields) with self.institution_keys = registry.
\* null decodes to None, which every check answers with False; an array is
\* refused by the qr_payload field of QRIntegrityCheck (Optional[Dict]).
QRIntegrityOf(registry, content, extracted_fields) ==
    IF content.syntax \notin JsonSyntax THEN InvalidJSONResult
    ELSE IF content.syntax = "array" THEN QRVerificationFailed
    ELSE IF content.syntax = "null"
         THEN QRIntegrityCheck(TRUE, FALSE, FALSE, FALSE, FALSE, None)
    ELSE LET qr_payload == content.object
             checked == extracted_fields # NoExtractedFields
         IN QRIntegrityCheck(TRUE,
                             VerifyQRSignature(registry, qr_payload),
                             VerifyIssuer(registry, qr_payload),
                             checked /\ CheckCertificateIdMatch(qr_payload, extracted_fields),
                             checked /\ CheckIssueDateMatch(qr_payload, extracted_fields),
                             None)

\* the QR service after construction, before any request
QRServiceIdle ==
    /\ institution_keys = LoadInstitutionKeys
    /\ registry_id = 2
    /\ signed_payload = NoSignedPayload
    /\ qr_image_data = NoText
    /\ qr_data = NoText
    /\ qr_integrity = QRIntegrityCheckDefault
    /\ qr_checks = 0

-----------------------------------------------------------------------------
(* verify_certificate *)

VerificationId == "ver_1"

Stages == {"extraction", "forensics", "signatures", "qr", "database"}

NoRiskScore == [RiskScoreFallback EXCEPT !.overall_score = 0, !.risk_level = None,
                                         !.risk_factors = <<>>]
NoDecision == Decision(VerificationStatus.PENDING, FALSE, <<>>, "")

Init ==
    /\ pc = "open"
    /\ l1 = ExtractedFieldsDefault
    /\ l2 = ForensicAnalysis(0, None, {})
    /\ l3 = SignatureVerificationDefault
    /\ qr = QRIntegrityCheckDefault
    /\ db_check = DatabaseCheck(FALSE, 0, <<>>, FALSE)
    /\ risk = NoRiskScore
    /\ decision = NoDecision
    /\ attestation = None
    /\ verifications = <<>>
    /\ attestations = <<>>
    /\ done = {}
    /\ failed = {}
    /\ ForensicsIdle
    /\ QRServiceIdle

\* Image.open(io.BytesIO(image_data))
OpenImage ==
    /\ pc = "open"
    /\ \/ pc' = "gather" /\ failed' = failed
       \/ pc' = "except" /\ failed' = failed \cup {"open"}
    /\ UNCHANGED <<l1, l2, l3, qr, db_check, risk, decision, attestation,
                   verifications, attestations, done>>
    /\ UNCHANGED serviceVars

\* layer1_task of asyncio.gather
ExtractFields ==
    /\ pc = "gather"
    /\ "extraction" \notin done
    /\ \E r \in ExtractionResults :
          /\ l1' = r
          /\ failed' = failed \cup (IF r.extraction_error THEN {"extraction"} ELSE {})
    /\ done' = done \cup {"extraction"}
    /\ UNCHANGED <<pc, l2, l3, qr, db_check, risk, decision, attestation,
                   verifications, attestations>>
    /\ UNCHANGED serviceVars

\* layer2_task of asyncio.gather
AnalyzeImage ==
    /\ pc = "gather"
    /\ "forensics" \notin done
    /\ \/ \E r \in ForensicReports : l2' = r /\ failed' = failed
       \/ l2' = ForensicAnalysisFailure /\ failed' = failed \cup {"forensics"}
    /\ done' = done \cup {"forensics"}
    /\ UNCHANGED <<pc, l1, l3, qr, db_check, risk, decision, attestation,
                   verifications, attestations>>
    /\ UNCHANGED serviceVars

\* the gather has returned both results; layer 3 runs
VerifySealsAndSignatures ==
    /\ pc = "gather"
    /\ {"extraction", "forensics"} \subseteq done
    /\ \E r \in SignatureResults :
          /\ l3' = r
          /\ failed' = failed \cup (IF r = SignatureVerificationDefault
                                    THEN {"signatures"} ELSE {})
    /\ done' = done \cup {"signatures"}
    /\ pc' = "qr"
    /\ UNCHANGED <<l1, l2, qr, db_check, risk, decision, attestation,
                   verifications, attestations>>
    /\ UNCHANGED serviceVars

\* qr_result = QRIntegrityCheck(); if layer1_result.qr_payload: verify_qr_integrity
CheckQRIntegrity ==
    /\ pc = "qr"
    /\ IF l1.qr_payload # None
       THEN \E r \in QRResults :
               /\ qr' = r
               /\ failed' = failed \cup (IF r.error_message # None THEN {"qr"} ELSE {})
               /\ done' = done \cup {"qr"}
       ELSE /\ qr' = QRIntegrityCheckDefault
            /\ UNCHANGED <<failed, done>>
    /\ pc' = "db"
    /\ UNCHANGED <<l1, l2, l3, db_check, risk, decision, attestation,
                   verifications, attestations>>
    /\ UNCHANGED serviceVars

CheckCertificateDatabase ==
    /\ pc = "db"
    /\ \E r \in DatabaseResults :
          /\ db_check' = r
          /\ failed' = failed \cup (IF r.error THEN {"database"} ELSE {})
    /\ done' = done \cup {"database"}
    /\ pc' = "risk"
    /\ UNCHANGED <<l1, l2, l3, qr, risk, decision, attestation,
                   verifications, attestations>>
    /\ UNCHANGED serviceVars

CalculateRiskScore ==
    /\ pc = "risk"
    /\ risk' = CalculateEnhancedRiskScore(LayerResults(l1, l2, l3, qr), db_check)
    /\ failed' = failed \cup (IF risk' = RiskScoreFallback THEN {"risk"} ELSE {})
    /\ pc' = "decide"
    /\ UNCHANGED <<l1, l2, l3, qr, db_check, decision, attestation,
                   verifications, attestations, done>>
    /\ UNCHANGED serviceVars

MakeDecision ==
    /\ pc = "decide"
    /\ decision' = MakeVerificationDecision(risk, LayerResults(l1, l2, l3, qr), db_check)
    /\ pc' = IF decision'.status = VerificationStatus.VERIFIED THEN "attest" ELSE "store"
    /\ UNCHANGED <<l1, l2, l3, qr, db_check, risk, attestation,
                   verifications, attestations, done, failed>>
    /\ UNCHANGED serviceVars

\* generate_image_hash(image_data)
ImageHash == "sha256_of_image"

\* _generate_enhanced_attestation: payload (extracted_fields, timestamp and
\* attestation_version, which no check reads, are left out)
AttestationPayload(verification_id, risk_score) ==
    <<<<"verification_id", verification_id>>,
      <<"risk_assessment", risk_score.risk_level>>,
      <<"image_hash", ImageHash>>>>

\* _create_qr_payload(certificate_data, institution_id, True) on a dict: the core
\* fields are read with certificate_data.get, image_hash is copied when present
CreateQRPayloadOfDict(certificate_data, institution_id) ==
    CreateQRPayload([certificate_id |-> DictGet(certificate_data, "certificate_id"),
                     issue_date |-> DictGet(certificate_data, "issue_date")],
                    institution_id)
    \o SelectSeq(certificate_data, LAMBDA kv : kv[1] = "image_hash")

\* generate_certificate_qr(payload, "default", True): signed_payload
GenerateCertificateQROf(registry, certificate_data, institution_id) ==
    SignQRPayload(CreateQRPayloadOfDict(certificate_data, institution_id),
                  GetInstitutionKeys(registry, institution_id))

\* attestation_data, the row handed to store_attestation
AttestationRow(registry, verification_id, risk_score) ==
    LET payload == AttestationPayload(verification_id, risk_score)
        signed == GenerateCertificateQROf(registry, payload, "default")
    IN  [verification_id |-> verification_id,
         signature |-> signed.signature,
         public_key |-> signed.public_key,
         payload |-> payload]

\* PublicVerificationService._verify_attestation_signature(attestation)
VerifyAttestationSignature(att) ==
    /\ att.signature # NoSignature
    /\ att.public_key # NoKey
    /\ att.payload # <<>>
    /\ VerifySignature(PayloadStr(att.payload), att.signature, att.public_key)

\* _generate_enhanced_attestation: the row is stored, or store_attestation answers a
\* schema error with a mock id, or the QR generation or the insert raises
GenerateAttestation ==
    /\ pc = "attest"
    /\ \/ /\ attestations' = Append(attestations,
                                     AttestationRow(institution_keys, VerificationId, risk))
          /\ attestation' = "attestation"
          /\ pc' = "store"
          /\ failed' = failed
       \/ /\ attestation' = "mock"
          /\ pc' = "store"
          /\ UNCHANGED <<attestations, failed>>
       \/ /\ pc' = "except"
          /\ failed' = failed \cup {"attestation"}
          /\ UNCHANGED <<attestations, attestation>>
    /\ UNCHANGED <<l1, l2, l3, qr, db_check, risk, decision, verifications, done>>
    /\ UNCHANGED serviceVars

\* the row of table "verifications" that store_verification inserts
VerificationRow(status, error) ==
    [id |-> VerificationId, status |-> status, error |-> error]

\* store_verification(verification_data)
StoreVerification ==
    /\ pc = "store"
    /\ \/ /\ verifications' = Append(verifications, VerificationRow(decision.status, FALSE))
          /\ pc' = "upload"
          /\ failed' = failed
       \/ /\ pc' = "except"
          /\ failed' = failed \cup {"storage"}
          /\ UNCHANGED verifications
    /\ UNCHANGED <<l1, l2, l3, qr, db_check, risk, decision, attestation,
                   attestations, done>>
    /\ UNCHANGED serviceVars

\* upload_certificate_image
UploadImage ==
    /\ pc = "upload"
    /\ \/ pc' = "respond" /\ failed' = failed
       \/ pc' = "except" /\ failed' = failed \cup {"upload"}
    /\ UNCHANGED <<l1, l2, l3, qr, db_check, risk, decision, attestation,
                   verifications, attestations, done>>
    /\ UNCHANGED serviceVars

\* return CertificateResponse(...)
Respond ==
    /\ pc = "respond"
    /\ pc' = "returned"
    /\ UNCHANGED <<l1, l2, l3, qr, db_check, risk, decision, attestation,
                   verifications, attestations, done, failed>>
    /\ UNCHANGED serviceVars

\* except Exception: store_verification(error_data), stored or not; then raise
HandleError ==
    /\ pc = "except"
    /\ \/ verifications' = Append(verifications,
                                  VerificationRow(VerificationStatus.FAILED, TRUE))
       \/ UNCHANGED verifications
    /\ pc' = "raised"
    /\ UNCHANGED <<l1, l2, l3, qr, db_check, risk, decision, attestation,
                   attestations, done, failed>>
    /\ UNCHANGED serviceVars

Next ==
    \/ OpenImage
    \/ ExtractFields
    \/ AnalyzeImage
    \/ VerifySealsAndSignatures
    \/ CheckQRIntegrity
    \/ CheckCertificateDatabase
    \/ CalculateRiskScore
    \/ MakeDecision
    \/ GenerateAttestation
    \/ StoreVerification
    \/ UploadImage
    \/ Respond
    \/ HandleError

Spec == Init /\ [][Next]_vars

-----------------------------------------------------------------------------
(* The decision engine on its own: _make_verification_decision applied to every *)
(* RiskScore, LayerResults and db_check of the sets below                       *)

OverallScores == {Weighted(Pct(p)) : p \in {0, 30, 31, 50, 84, 85, 100}}
Confidences == {Pct(p) : p \in {59, 60, 79, 80}}
RiskLevels == {RiskLevel.LOW, RiskLevel.MEDIUM, RiskLevel.HIGH, RiskLevel.CRITICAL}
RiskFactorLists == {<<>>, <<"No signatures detected">>}

RiskScores ==
    {[RiskScoreFallback EXCEPT !.overall_score = o, !.confidence = c,
                               !.risk_level = lv, !.risk_factors = rf] :
        o \in OverallScores, c \in Confidences, lv \in RiskLevels, rf \in RiskFactorLists}

InitDecision ==
    /\ pc = "decide"
    /\ l1 = ExtractedFieldsDefault
    /\ l2 \in ForensicReports
    /\ \E n \in 0..MaxSeals, m \in 0..MaxSignatures :
          l3 = SignatureVerification(n, m, 0, 0, "False")
    /\ qr \in QRResults \cup {QRIntegrityCheckDefault}
    /\ db_check \in {DatabaseCheck(FALSE, 0, <<>>, FALSE), DatabaseCheck(TRUE, One, <<>>, FALSE)}
    /\ risk \in RiskScores
    /\ decision = NoDecision
    /\ attestation = None
    /\ verifications = <<>>
    /\ attestations = <<>>
    /\ done = Stages
    /\ failed = {}
    /\ ForensicsIdle
    /\ QRServiceIdle

NextDecision == MakeDecision

SpecDecision == InitDecision /\ [][NextDecision]_vars

-----------------------------------------------------------------------------
(* Properties of the decision engine *)

Range(s) == {s[i] : i \in DOMAIN s}

\* _make_verification_decision has returned
Decided == decision # NoDecision

\* rule 1 as the specification words it
TamperRule ==
    \/ l2.tamper_probability > Pct(80)
    \/ l2.hash_match = "False"
    \/ Cardinality(l2.tamper_types) >= 3

\* rule 2 as the specification words it
SignatureRule ==
    \/ qr.qr_detected /\ qr.qr_decoded /\ ~qr.signature_valid
    \/ l3.seals_detected = 0 /\ l3.signatures_detected = 0 /\ ~qr.qr_detected

HighScore == risk.overall_score >= Weighted(Pct(85))
LowScore == risk.overall_score <= Weighted(Pct(30))

\* C1: whenever tamper_probability > 0.8, or hash_match is false, or at least three
\* tamper types are reported, the decision is Tampered with manual review, whatever
\* the scores, the signature and QR evidence and the database result are.
C1_TamperHardReject ==
    (Decided /\ TamperRule) =>
        /\ decision.status = VerificationStatus.TAMPERED
        /\ decision.requires_manual_review = TRUE

\* C1 witness: three tamper types under a perfect score with no risk factor recorded
\* are rejected as Tampered.
C1_Witness ==
    /\ Decided
    /\ Cardinality(l2.tamper_types) = 3 /\ l2.tamper_probability <= Pct(80)
    /\ l2.hash_match # "False"
    /\ risk.overall_score = Weighted(One) /\ risk.confidence >= Pct(80)
    /\ risk.risk_factors = <<>>
    /\ decision.status = VerificationStatus.TAMPERED

\* C2: when the tamper rule does not match, the decision is SignatureInvalid with
\* manual review if and only if a decoded QR code has an invalid signature or there
\* is no seal, no signature and no QR code; the score and confidence play no part.
C2_SignatureHardReject ==
    (Decided /\ ~TamperRule) =>
        ((/\ decision.status = VerificationStatus.SIGNATURE_INVALID
          /\ decision.requires_manual_review = TRUE)
         <=> SignatureRule)

\* C2 witness: a decoded QR code with an invalid signature is rejected although the
\* score is at least 0.85 and seals and signatures were found.
C2_Witness ==
    /\ Decided /\ ~TamperRule
    /\ qr.qr_decoded /\ ~qr.signature_valid
    /\ l3.seals_detected > 0 /\ l3.signatures_detected > 0
    /\ HighScore /\ risk.confidence >= Pct(80)
    /\ decision.status = VerificationStatus.SIGNATURE_INVALID

\* C3: when neither hard-reject rule matches, the decision is Verified without review
\* and without escalation reasons if and only if overall_score >= 0.85 and
\* confidence >= 0.8 and no risk factor is recorded.
C3_AutoApprove ==
    (Decided /\ ~TamperRule /\ ~SignatureRule) =>
        ((/\ decision.status = VerificationStatus.VERIFIED
          /\ decision.requires_manual_review = FALSE
          /\ decision.escalation_reasons = <<>>)
         <=> (HighScore /\ risk.confidence >= Pct(80) /\ risk.risk_factors = <<>>))

\* C3 witness: a score of exactly 0.85 with confidence exactly 0.8 is Verified.
C3_Witness ==
    /\ Decided /\ ~TamperRule /\ ~SignatureRule
    /\ risk.overall_score = Weighted(Pct(85)) /\ risk.confidence = Pct(80)
    /\ risk.risk_factors = <<>>
    /\ decision.status = VerificationStatus.VERIFIED

\* C4 as claimed: when neither hard-reject rule matches, overall_score >= 0.85 and a
\* risk factor is recorded, the decision is RequiresReview with the reason "Risk
\* factors present despite high score", for every confidence.
C4_ScoreConflictAnyConfidence ==
    (Decided /\ ~TamperRule /\ ~SignatureRule /\ HighScore /\ risk.risk_factors # <<>>) =>
        /\ decision.status = VerificationStatus.REQUIRES_REVIEW
        /\ "Risk factors present despite high score" \in Range(decision.escalation_reasons)

\* C4 amended: under the same conditions the decision is RequiresReview with manual
\* review for every confidence; it carries the reason "Risk factors present despite
\* high score" exactly when confidence >= 0.8, and the reasons of the manual-review
\* branch otherwise.
C4_ScoreConflict ==
    (Decided /\ ~TamperRule /\ ~SignatureRule /\ HighScore /\ risk.risk_factors # <<>>) =>
        /\ decision.status = VerificationStatus.REQUIRES_REVIEW
        /\ decision.requires_manual_review = TRUE
        /\ IF risk.confidence >= Pct(80)
           THEN decision.escalation_reasons = <<"Risk factors present despite high score">>
           ELSE /\ "Risk factors present despite high score"
                       \notin Range(decision.escalation_reasons)
                /\ decision.decision_rationale = "Manual review required"

\* C4 witness: a high score with a risk factor and confidence 0.8 is sent to review
\* for the score conflict.
C4_Witness ==
    /\ Decided /\ ~TamperRule /\ ~SignatureRule
    /\ HighScore /\ risk.risk_factors # <<>> /\ risk.confidence = Pct(80)
    /\ decision.status = VerificationStatus.REQUIRES_REVIEW
    /\ decision.decision_rationale = "High score but risk factors require review"

\* C5: when neither hard-reject rule matches and overall_score <= 0.30, the decision
\* is Failed, whatever the confidence, the risk factors and the database result are.
C5_AutoReject ==
    (Decided /\ ~TamperRule /\ ~SignatureRule /\ LowScore) =>
        decision.status = VerificationStatus.FAILED

\* C5 witness: a score of exactly 0.30 is Failed although the confidence is high, no
\* risk factor is recorded and the database matched.
C5_Witness ==
    /\ Decided /\ ~TamperRule /\ ~SignatureRule
    /\ risk.overall_score = Weighted(Pct(30)) /\ risk.confidence >= Pct(80)
    /\ risk.risk_factors = <<>> /\ db_check.match_found
    /\ decision.status = VerificationStatus.FAILED

\* C6: when no earlier rule matches (no hard reject, not both overall_score >= 0.85 and
\* confidence >= 0.8, overall_score > 0.30), the decision is RequiresReview and its
\* reasons hold the low-confidence reason exactly when confidence < 0.6, "No database
\* match" exactly when the lookup found no match, and the high-risk reason exactly
\* when risk_level is high or critical.
C6_DefaultReview ==
    (/\ Decided /\ ~TamperRule /\ ~SignatureRule
     /\ ~(HighScore /\ risk.confidence >= Pct(80))
     /\ ~LowScore) =>
        /\ decision.status = VerificationStatus.REQUIRES_REVIEW
        /\ decision.requires_manual_review = TRUE
        /\ ("Low confidence in assessment" \in Range(decision.escalation_reasons))
              <=> (risk.confidence < Pct(60))
        /\ ("No database match" \in Range(decision.escalation_reasons))
              <=> ~db_check.match_found
        /\ ("High risk level detected" \in Range(decision.escalation_reasons))
              <=> (risk.risk_level \in {"high", "critical"})

\* C6 witness: score 0.50, no database match, risk level high, confidence exactly 0.6.
C6_Witness ==
    /\ Decided /\ ~TamperRule /\ ~SignatureRule
    /\ risk.overall_score = Weighted(Pct(50)) /\ risk.confidence = Pct(60)
    /\ ~db_check.match_found /\ risk.risk_level = "high"
    /\ decision.status = VerificationStatus.REQUIRES_REVIEW
    /\ decision.escalation_reasons = <<"No database match", "High risk level detected">>

\* how approved a status is: Failed < RequiresReview < Verified
Approval(status) ==
    IF status = VerificationStatus.FAILED THEN 0
    ELSE IF status = VerificationStatus.REQUIRES_REVIEW THEN 1
    ELSE 2

\* the status decided for the inputs of this state with the overall score replaced
StatusAt(overall_score) ==
    MakeVerificationDecision([risk EXCEPT !.overall_score = overall_score],
                             LayerResults(l1, l2, l3, qr), db_check).status

\* C7: with every other input fixed and no hard-reject rule matching, a higher overall
\* score is never decided less approved than a lower one.
C7_DecisionMonotone ==
    (Decided /\ ~TamperRule /\ ~SignatureRule) =>
        \A b \in OverallScores :
            /\ b >= risk.overall_score => Approval(StatusAt(b)) >= Approval(decision.status)
            /\ b <= risk.overall_score => Approval(StatusAt(b)) <= Approval(decision.status)

\* C7 witness: a decision of RequiresReview that a lower score turns into Failed and a
\* higher score into Verified.
C7_Witness ==
    /\ Decided /\ ~TamperRule /\ ~SignatureRule
    /\ decision.status = VerificationStatus.REQUIRES_REVIEW
    /\ \E a, b \in OverallScores :
          /\ a < risk.overall_score /\ risk.overall_score < b
          /\ StatusAt(a) = VerificationStatus.FAILED
          /\ StatusAt(b) = VerificationStatus.VERIFIED

\* the risk score and the status of this state's layer results when the database match
\* confidence, which enters the overall score and nothing else the rules read, is c
RiskWithMatchConfidence(c) ==
    CalculateEnhancedRiskScore(LayerResults(l1, l2, l3, qr), [db_check EXCEPT !.confidence = c])
StatusWithMatchConfidence(c) ==
    MakeVerificationDecision(RiskWithMatchConfidence(c), LayerResults(l1, l2, l3, qr),
                             [db_check EXCEPT !.confidence = c]).status

\* C7 in verify_certificate, where the confidence is recomputed from the overall score:
\* raising the overall score through the database match confidence never lowers the
\* approval of the status.
C7_PipelineMonotone ==
    (Decided /\ ~TamperRule /\ ~SignatureRule /\ db_check.match_found) =>
        \A c \in {Pct(p) : p \in {0, 25, 50, 75, 100}} :
            LET r == RiskWithMatchConfidence(c)
            IN  /\ r.overall_score >= risk.overall_score =>
                      Approval(StatusWithMatchConfidence(c)) >= Approval(decision.status)
                /\ r.overall_score <= risk.overall_score =>
                      Approval(StatusWithMatchConfidence(c)) <= Approval(decision.status)

-----------------------------------------------------------------------------
(* Properties of verify_certificate *)

\* the rows of table "verifications" stored for the attempt's verification id
RowsOfAttempt == {i \in DOMAIN verifications : verifications[i].id = VerificationId}

\* the stages and steps C8 names, apart from risk scoring
PipelineSteps == Stages \cup {"storage", "upload"}

\* C8 as claimed: every call returns a decision with a status and a rationale; when a
\* stage fails (extraction, forensics, seals and signatures, QR, database, risk
\* scoring, storage, upload) the call does not raise, and the outcome is no worse
\* than RequiresReview, which then carries a reason that names the failed assessment.
C8_NeverRaises ==
    /\ (failed \cap (PipelineSteps \cup {"risk"}) # {}) => pc # "raised"
    /\ pc = "returned" =>
          /\ decision.status # VerificationStatus.PENDING
          /\ decision.decision_rationale # ""
    /\ (pc = "returned" /\ failed # {}) =>
          \/ decision.status = VerificationStatus.VERIFIED
          \/ /\ decision.status = VerificationStatus.REQUIRES_REVIEW
             /\ decision.escalation_reasons # <<>>

\* C9 as claimed: an attempt records one terminal outcome; once a row with a status is
\* stored for the verification id, no later step stores a second row for it.
C9_OneRecordPerAttempt == Cardinality(RowsOfAttempt) <= 1

\* the calls whose results the risk score reads
RequiredStages ==
    {"extraction", "forensics", "signatures", "database"}
        \cup (IF l1.qr_payload # None THEN {"qr"} ELSE {})

\* C10 as claimed: the risk score and the decision rules are evaluated only after
\* extraction, forensics, seal and signature verification, the QR check (when a QR
\* payload was extracted) and the database lookup have completed; and when one of
\* them failed, no status of the decision rules is emitted or stored, and a failure
\* record is stored instead.
C10_DecisionOnlyOnCompleteInputs ==
    /\ (risk # NoRiskScore \/ Decided) => RequiredStages \subseteq done
    /\ (failed \cap Stages # {}) =>
          /\ pc # "returned"
          /\ \A i \in RowsOfAttempt : verifications[i].error
          /\ pc = "raised" => \E i \in RowsOfAttempt : verifications[i].error

\* the first half of C10 on its own
C10_StagesBeforeRisk ==
    (pc \notin {"open", "gather", "qr", "db", "risk", "except", "raised"}) =>
        RequiredStages \subseteq done

-----------------------------------------------------------------------------
(* analyze_image on its own: every image, reference hash and failure of its tasks *)

\* the reference hashes a caller can hand in for img: none, the empty string, the hashes
\* the system recorded for img, and the hash of another image
ReferenceHashesOf(img) ==
    {NoHash, EmptyHash, CanonicalImageHash(img), IssuanceImageHash(img),
     Sha256(PNGBytes(img))}
        \cup {Sha256(PNGBytes(other)) : other \in {i \in Images : i.pixels # img.pixels}}

\* verify_certificate has not been called
FusionIdle ==
    /\ pc = "idle"
    /\ l1 = ExtractedFieldsDefault
    /\ l2 = ForensicAnalysis(0, None, {})
    /\ l3 = SignatureVerificationDefault
    /\ qr = QRIntegrityCheckDefault
    /\ db_check = DatabaseCheck(FALSE, 0, <<>>, FALSE)
    /\ risk = NoRiskScore
    /\ decision = NoDecision
    /\ attestation = None
    /\ verifications = <<>>
    /\ attestations = <<>>
    /\ done = {}
    /\ failed = {}

InitForensics ==
    /\ FusionIdle
    /\ QRServiceIdle
    /\ l2_pc = "convert"
    /\ image \in Images
    /\ reference_hash \in ReferenceHashesOf(image)
    /\ results = [t \in Tasks |-> Outcome("pending", TaskDefault(t))]
    /\ suspicious_regions = <<>>
    /\ analysis = ForensicAnalysisDefault
    /\ l2_failed = {}

\* cv2.cvtColor(np.array(image), ...), lines 64-65
ConvertImage ==
    /\ l2_pc = "convert"
    /\ \/ l2_pc' = "gather" /\ l2_failed' = l2_failed
       \/ l2_pc' = "except" /\ l2_failed' = l2_failed \cup {"convert"}
    /\ UNCHANGED <<image, reference_hash, results, suspicious_regions, analysis>>
    /\ UNCHANGED <<fusionVars, qrVars>>

\* one task of asyncio.gather(*tasks, return_exceptions=True) ends: it returns its
\* value, or fails and returns the default of its except branch, or raises
RunTask ==
    /\ l2_pc = "gather"
    /\ \E t \in Tasks :
          /\ results[t].state = "pending"
          /\ \/ /\ results' = [results EXCEPT ![t] = Outcome("returned", TaskResult(t, image))]
                /\ l2_failed' = l2_failed
             \/ /\ results' = [results EXCEPT ![t] = Outcome("returned", TaskDefault(t))]
                /\ l2_failed' = l2_failed \cup {t}
             \/ /\ results' = [results EXCEPT ![t] = Outcome("raised", TaskDefault(t))]
                /\ l2_failed' = l2_failed \cup {t}
    /\ UNCHANGED <<l2_pc, image, reference_hash, suspicious_regions, analysis>>
    /\ UNCHANGED <<fusionVars, qrVars>>

\* a gather that returns as soon as one task has ended
GatherReturned_FirstCompleted(res) == \E t \in Tasks : res[t].state # "pending"

\* results = await asyncio.gather(*tasks, return_exceptions=True) returns when every
\* task has ended, with its value or with its exception
GatherReturned(res) == \A t \in Tasks : res[t].state # "pending"

\* the gather has returned; _find_suspicious_regions answers an error with []
FindSuspiciousRegions ==
    /\ l2_pc = "gather"
    /\ GatherReturned(results)
    /\ \/ \E r \in RegionLists : suspicious_regions' = r /\ l2_failed' = l2_failed
       \/ suspicious_regions' = <<>> /\ l2_failed' = l2_failed \cup {"regions"}
    /\ l2_pc' = "report"
    /\ UNCHANGED <<image, reference_hash, results, analysis>>
    /\ UNCHANGED <<fusionVars, qrVars>>

\* lines 92-127: the report is built and returned, or its construction raises
BuildReport ==
    /\ l2_pc = "report"
    /\ \/ /\ analysis' = BuildAnalysis(reference_hash, results, suspicious_regions)
          /\ l2_pc' = "returned"
          /\ l2_failed' = l2_failed
       \/ /\ l2_pc' = "except"
          /\ l2_failed' = l2_failed \cup {"report"}
          /\ UNCHANGED analysis
    /\ UNCHANGED <<image, reference_hash, results, suspicious_regions>>
    /\ UNCHANGED <<fusionVars, qrVars>>

\* except Exception: return ForensicAnalysis(tamper_probability=0.5, ...)
ReturnFailureReport ==
    /\ l2_pc = "except"
    /\ analysis' = AnalysisFailure
    /\ l2_pc' = "returned"
    /\ UNCHANGED <<image, reference_hash, results, suspicious_regions, l2_failed>>
    /\ UNCHANGED <<fusionVars, qrVars>>

NextForensics ==
    \/ ConvertImage
    \/ RunTask
    \/ FindSuspiciousRegions
    \/ BuildReport
    \/ ReturnFailureReport

SpecForensics == InitForensics /\ [][NextForensics]_vars

-----------------------------------------------------------------------------
(* Properties of analyze_image *)

\* the steps outside the tasks whose failure makes analyze_image fail as a whole
WholeFailures == {"convert", "report"}

\* analyze_image has returned the report built from the gathered results
ReportBuilt == l2_pc = "returned" /\ l2_failed \cap WholeFailures = {}

\* analyze_image has returned from its except branch
ReportFailed == l2_pc = "returned" /\ l2_failed \cap WholeFailures # {}

\* the score of each detector: 0.0 if it failed, else what it computes for the image
ExpectedScores ==
    [d \in Detectors |-> IF d \in l2_failed THEN 0 ELSE DetectorScoresOf(image.pixels)[d]]

\* C11: for every subset of the six detectors that fails, each failed detector
\* contributes the score 0.0 and every other detector the score it computes for the
\* image when nothing fails; the failure of a detector never takes analyze_image to
\* its except branch, and the report returned is aggregated from these scores.
C11_DetectorFailureIsNeutral ==
    /\ l2_pc = "except" => l2_failed \cap WholeFailures # {}
    /\ ReportBuilt =>
          /\ analysis.copy_move_score = ExpectedScores["copy_move"]
          /\ analysis.ela_score = ExpectedScores["ela"]
          /\ analysis.double_compression_score = ExpectedScores["compression"]
          /\ analysis.noise_analysis_score = ExpectedScores["noise"]
          /\ analysis.tamper_probability = CalculateTamperProbability(ExpectedScores)
          /\ analysis.tamper_types \ {"hash_mismatch"} = ClassifyTamperTypes(ExpectedScores)

\* C11 witness: the ELA detector raised and the JPEG detector failed in its wrapper,
\* and the report still carries the copy-move and noise scores of the edited image.
C11_Witness ==
    /\ ReportBuilt
    /\ image.pixels = "edited"
    /\ l2_failed \cap Detectors = {"ela", "jpeg"}
    /\ results["ela"].state = "raised" /\ results["jpeg"].state = "returned"
    /\ analysis.ela_score = 0
    /\ analysis.copy_move_score = Pct(65) /\ analysis.noise_analysis_score = Pct(75)
    /\ analysis.tamper_probability > 0
    /\ analysis.tamper_types = {"copy_move", "double_compression", "noise_inconsistency"}

ReferenceDiffers ==
    /\ reference_hash \notin {NoHash, EmptyHash}
    /\ reference_hash # Sha256(PNGBytes(image))

ReferenceRecordedForImage ==
    reference_hash \in {CanonicalImageHash(image), IssuanceImageHash(image)}

\* C14 as claimed: when the image is analysed with a hash the system itself recorded
\* for it as the reference and the hashes are computed, the report has
\* hash_match = true and no HashMismatch, and the tamper rule is not met by the hash.
C14_HashRoundTrip ==
    (ReportBuilt /\ "hashes" \notin l2_failed /\ ReferenceRecordedForImage) =>
        /\ analysis.hash_match = "True"
        /\ "hash_mismatch" \notin analysis.tamper_types
        /\ ~IsFalse(AsLayer2(analysis).hash_match)

\* the round trip that does hold: the reference is the sha256_hash of an earlier
\* report on the same pixels
C14_ReportHashRoundTrip ==
    (ReportBuilt /\ "hashes" \notin l2_failed
     /\ reference_hash = CalculateHashesSync(image).sha256) =>
        /\ analysis.hash_match = "True"
        /\ "hash_mismatch" \notin analysis.tamper_types

-----------------------------------------------------------------------------
(* The QR integrity service on its own: keys are added, codes are issued, and *)
(* scan contents, as issued or altered, are verified                          *)

MaxChecks == 2

OtherCertificateId(certificate_id) == IF certificate_id = "C1" THEN "C2" ELSE "C1"

\* the public key of another issuer than the one whose key signed
OtherPublicKey(public_key) ==
    IF public_key.pair = "default_key" THEN PublicKey("univ_x_key")
    ELSE PublicKey("default_key")

\* payload with the value of key replaced
DictPut(d, key, value) ==
    [i \in DOMAIN d |-> IF d[i][1] = key THEN <<key, value>> ELSE d[i]]

\* the same dict with its keys in the opposite order
Reordered(d) == [i \in DOMAIN d |-> d[Len(d) + 1 - i]]

\* what can be made of the signed payload by changing one part of it
AlteredPayloads(signed) ==
    { [signed EXCEPT !.signature.bytes.intact = FALSE],
      [signed EXCEPT !.signature.discarded = TRUE],
      [signed EXCEPT !.payload = DictPut(@, "certificate_id",
                         OtherCertificateId(DictGet(@, "certificate_id")))],
      [signed EXCEPT !.public_key = OtherPublicKey(@)],
      [signed EXCEPT !.public_key = NoKey, !.keys = @ \ {"public_key"}],
      [signed EXCEPT !.signature = NoSignature, !.keys = @ \ {"signature"}],
      [signed EXCEPT !.payload = Reordered(@)] }

\* the scan contents a caller can hand to verify_qr_integrity: the content of
\* the QR image, the JSON of the signed payload, whole, cut short or altered,
\* other JSON values, text that is no JSON, and the content verified last
ScanContents ==
    {qr_image_data, JsonDumps(signed_payload), Text("truncated", signed_payload, ""),
     Text("array", NoSignedPayload, ""), Text("null", NoSignedPayload, ""),
     Text("garbage", NoSignedPayload, ""), qr_data}
        \cup (IF signed_payload = NoSignedPayload THEN {}
              ELSE {JsonDumps(altered) : altered \in AlteredPayloads(signed_payload)})

InitQR ==
    /\ FusionIdle
    /\ ForensicsIdle
    /\ QRServiceIdle

\* add_institution_key: self.institution_keys[institution_id] = {...}, line 515;
\* the dict that self.institution_keys is bound to stays the same object
AddInstitutionKey ==
    /\ \E input \in InstitutionKeyInputs :
          institution_keys' =
              [i \in DOMAIN institution_keys \cup {input[1]} |->
                  IF i = input[1] THEN InstitutionKeys(input[2]) ELSE institution_keys[i]]
    /\ UNCHANGED <<registry_id, signed_payload, qr_image_data, qr_data, qr_integrity,
                   qr_checks>>
    /\ UNCHANGED <<fusionVars, forensicsVars>>

\* generate_certificate_qr: returns the signed payload; the image holds the URL
GenerateCertificateQR ==
    /\ \E certificate_data \in CertificateData, institution_id \in InstitutionIds :
          /\ signed_payload' =
                SignQRPayload(CreateQRPayload(certificate_data, institution_id),
                              GetInstitutionKeys(institution_keys, institution_id))
          /\ qr_image_data' = VerificationURL(certificate_data.certificate_id)
    /\ UNCHANGED <<institution_keys, registry_id, qr_data, qr_integrity, qr_checks>>
    /\ UNCHANGED <<fusionVars, forensicsVars>>

\* generate_verification_qr: the image holds the JSON of verification_payload
GenerateVerificationQR ==
    /\ qr_image_data' = JsonDumps(VerificationPayload)
    /\ qr_image_data' # qr_image_data
    /\ UNCHANGED <<institution_keys, registry_id, signed_payload, qr_data, qr_integrity,
                   qr_checks>>
    /\ UNCHANGED <<fusionVars, forensicsVars>>

\* verify_qr_integrity(qr_data, extracted_fields)
VerifyQRIntegrity ==
    /\ \E content \in ScanContents \ {NoText}, extracted_fields \in ExtractedFieldsInputs :
          /\ content = qr_data => qr_checks < MaxChecks
          /\ qr_data' = content
          /\ qr_integrity' = QRIntegrityOf(institution_keys, content, extracted_fields)
          /\ qr_checks' = IF content = qr_data THEN qr_checks + 1 ELSE 1
    /\ UNCHANGED <<institution_keys, registry_id, signed_payload, qr_image_data>>
    /\ UNCHANGED <<fusionVars, forensicsVars>>

NextQR ==
    \/ AddInstitutionKey
    \/ GenerateCertificateQR
    \/ GenerateVerificationQR
    \/ VerifyQRIntegrity

SpecQR == InitQR /\ [][NextQR]_vars

-----------------------------------------------------------------------------
(* Properties of the QR integrity service *)

\* a step in which verify_qr_integrity returned
VerifyStep == qr_data' # qr_data \/ qr_checks' # qr_checks

\* qr_data is the JSON of the signed payload issued last
ScannedAsIssued ==
    /\ qr_checks > 0
    /\ signed_payload # NoSignedPayload
    /\ qr_data = JsonDumps(signed_payload)

\* C15: the signed payload produced by signing a payload with a key pair the
\* service holds, handed to verify_qr_integrity as JSON, is reported with
\* qr_decoded and signature_valid, the first time and every time it is verified
\* again.
C15_SignatureRoundTrip ==
    ScannedAsIssued =>
        /\ qr_integrity.qr_decoded
        /\ qr_integrity.signature_valid

C15_Witness ==
    /\ ScannedAsIssued
    /\ qr_checks >= 2
    /\ qr_integrity.signature_valid
    /\ signed_payload.public_key = PublicKey("univ_x_key_2")

\* the signature text is the base64 encoding of the signature that the private
\* key of public_key makes over the canonical serialization of the payload
SignedWith(qr_payload, public_key) ==
    /\ "signature" \in qr_payload.keys
    /\ qr_payload.signature =
          B64Encode(EcdsaSign(PayloadStr(qr_payload.payload), PrivateKey(public_key.pair)))

\* C16: verify_qr_integrity reports signature_valid only if a public key is
\* available (embedded, or else registered for the issuer of the payload) and
\* the signature in the scan content is the one the matching private key made
\* over the canonical serialization of the payload; any other signature, payload
\* or key gives signature_valid = false.
C16_SignatureValidOnlyIfSigned ==
    [][(VerifyStep /\ qr_integrity'.signature_valid) =>
          LET public_key == AvailablePublicKey(institution_keys', qr_data'.object)
          IN /\ qr_data'.syntax = "object"
             /\ public_key # NoKey
             /\ SignedWith(qr_data'.object, public_key)]_vars

\* C16, on the decoded signature: signature_valid is reported only if a public
\* key is available and the bytes that the signature text decodes to are the
\* signature the matching private key made over the canonical serialization of
\* the payload.
C16_SignatureValidOnlyIfBytesSigned ==
    [][(VerifyStep /\ qr_integrity'.signature_valid) =>
          LET public_key == AvailablePublicKey(institution_keys', qr_data'.object)
              qr_payload == qr_data'.object
          IN /\ qr_data'.syntax = "object"
             /\ public_key # NoKey
             /\ "signature" \in qr_payload.keys
             /\ B64Decode(qr_payload.signature) =
                   EcdsaSign(PayloadStr(qr_payload.payload), PrivateKey(public_key.pair))]_vars

\* the issuer id of the payload in a scan content, None when there is none
IssuerIdOf(content) ==
    IF content.syntax = "object" THEN DictGet(content.object.payload, "issuer_id")
    ELSE None

\* C17: verify_qr_integrity reports issuer_verified if and only if the issuer id
\* of the payload is in the registry, whether or not the signature is valid.
C17_IssuerVerifiedIffRegistered ==
    [][VerifyStep =>
          (qr_integrity'.issuer_verified <=>
              IssuerIdOf(qr_data') \in DOMAIN institution_keys')]_vars

C17_Witness ==
    /\ ScannedAsIssued
    /\ IssuerIdOf(qr_data) = "univ-y"
    /\ "univ-y" \notin DOMAIN institution_keys
    /\ qr_integrity.signature_valid
    /\ ~qr_integrity.issuer_verified

\* C18: for a scan content that is not JSON, verify_qr_integrity returns a result
\* with qr_detected, without qr_decoded, with every other flag false and with an
\* error message.
C18_MalformedContentFailsClosed ==
    (qr_checks > 0 /\ qr_data.syntax \notin JsonSyntax) =>
        /\ qr_integrity.qr_detected
        /\ ~qr_integrity.qr_decoded
        /\ ~qr_integrity.signature_valid
        /\ ~qr_integrity.issuer_verified
        /\ ~qr_integrity.certificate_id_match
        /\ ~qr_integrity.issue_date_match
        /\ qr_integrity.error_message # None

C18_Witness ==
    /\ qr_checks > 0
    /\ qr_data = Text("truncated", signed_payload, "")
    /\ signed_payload # NoSignedPayload
    /\ ~qr_integrity.qr_decoded

\* the contents of the codes of the certificate issued last: the URL in the QR
\* image and the JSON of the signed payload
IssuedContents ==
    IF signed_payload = NoSignedPayload THEN {}
    ELSE {VerificationURL(DictGet(signed_payload.payload, "certificate_id")),
          JsonDumps(signed_payload)}

\* C19: the content of a code issued for a certificate, the URL of link mode as
\* well as the JSON of the signed payload, is reported by verify_qr_integrity
\* with qr_decoded and with the validity of the issuer's signature.
C19_BothModesVerify ==
    (qr_checks > 0 /\ qr_data \in IssuedContents) =>
        /\ qr_integrity.qr_decoded
        /\ qr_integrity.signature_valid

\* C20: add_institution_key never changes the mapping in place: whenever the
\* issuer-to-key mapping changes, self.institution_keys is a new mapping.
C20_CopyOnWrite ==
    [][institution_keys' # institution_keys => registry_id' # registry_id]_vars

\* C20, the requests: between the first and the last key lookup of a
\* verification, and of a signing request, the mapping does not change.
C20_RequestSeesOneRegistry ==
    [][(VerifyStep \/ signed_payload' # signed_payload) =>
          institution_keys' = institution_keys]_vars

-----------------------------------------------------------------------------
(* Properties of analyze_image: the barrier *)

\* C25: tamper-type classification, the hash comparison and tamper_probability are
\* computed only after all seven tasks have ended, each with a result or with a
\* failure: the steps after the gather, and the report they build, are reached
\* only when no task is still running.
C25_AggregationAfterAllTasks ==
    (l2_pc = "report" \/ (l2_pc = "returned" /\ analysis # AnalysisFailure)) =>
        /\ Cardinality(Tasks) = 7
        /\ \A t \in Tasks : results[t].state \in {"returned", "raised"}

C25_Witness ==
    /\ l2_pc = "returned"
    /\ analysis = BuildAnalysis(reference_hash, results, suspicious_regions)
    /\ analysis # AnalysisFailure
    /\ \E t \in Tasks : results[t].state = "raised"
    /\ \E t \in Tasks : results[t].state = "returned"

-----------------------------------------------------------------------------
(* _find_suspicious_regions on its own: the candidate boxes of the two finders *)
(* and their merging                                                          *)

\* _find_noise_inconsistent_regions: side of a block; blocks start every half side
block_size == 32

\* the last block row and the last block column that the image has room for
MaxBlockRow == 3
MaxBlockCol == 1

\* image height and width, above the 100 pixels that the ELA finder asks for
ImageSide == (MaxBlockRow + MaxBlockCol + 4) * (block_size \div 2)

\* range(0, h - block_size, block_size // 2), range(0, w - block_size, ...)
BlockRows == {r * (block_size \div 2) : r \in 0..MaxBlockRow}
BlockCols == {c * (block_size \div 2) : c \in 0..MaxBlockCol}

\* the block that starts at row i, column j: [j, i, j + block_size, i + block_size]
Block(i, j) == <<j, i, j + block_size, i + block_size>>

\* the blocks of the flagged positions, in the order of the two loops: rows
\* outside, columns inside
RECURSIVE NoiseRegions(_)
NoiseRegions(flagged) ==
    IF flagged = {} THEN <<>>
    ELSE LET first == CHOOSE p \in flagged :
                          \A q \in flagged :
                              p[1] < q[1] \/ (p[1] = q[1] /\ p[2] <= q[2])
         IN  <<Block(first[1], first[2])>> \o NoiseRegions(flagged \ {first})

\* _find_ela_anomalous_regions: [w//4, h//4, 3*w//4, 3*h//4], or nothing
ELARegions ==
    {<<>>, <<<<ImageSide \div 4, ImageSide \div 4,
               (3 * ImageSide) \div 4, (3 * ImageSide) \div 4>>>>}

\* suspicious_regions before merging: noise_regions, then ela_regions
CandidateLists ==
    {NoiseRegions(flagged) \o ela :
        flagged \in SUBSET (BlockRows \X BlockCols), ela \in ELARegions}

\* regions.sort(key=lambda x: x[0]): stable, equal keys keep their order
RECURSIVE SortByX(_)
SortByX(regions) ==
    IF regions = <<>> THEN <<>>
    ELSE LET front == SortByX(SubSeq(regions, 1, Len(regions) - 1))
             x == regions[Len(regions)]
             before == SelectSeq(front, LAMBDA r : r[1] <= x[1])
             after == SelectSeq(front, LAMBDA r : r[1] > x[1])
         IN  before \o <<x>> \o after

\* the overlap test of _merge_overlapping_regions
RegionsOverlap(current, last) ==
    /\ current[1] <= last[3] /\ current[2] <= last[4]
    /\ current[3] >= last[1] /\ current[4] >= last[2]

\* the bounding box of two boxes
MergedRegion(last, current) ==
    <<Min(last[1], current[1]), Min(last[2], current[2]),
      Max(last[3], current[3]), Max(last[4], current[4])>>

\* for current in regions[1:]: merge into merged[-1], or append
RECURSIVE MergeNext(_, _)
MergeNext(merged, rest) ==
    IF rest = <<>> THEN merged
    ELSE LET last == merged[Len(merged)]
             current == Head(rest)
         IN  IF RegionsOverlap(current, last)
             THEN MergeNext([merged EXCEPT ![Len(merged)] = MergedRegion(last, current)],
                            Tail(rest))
             ELSE MergeNext(Append(merged, current), Tail(rest))

\* _merge_overlapping_regions
MergeOverlappingRegions(regions) ==
    IF regions = <<>> THEN <<>>
    ELSE LET sorted == SortByX(regions)
         IN  MergeNext(<<Head(sorted)>>, Tail(sorted))

InitRegions ==
    /\ FusionIdle
    /\ QRServiceIdle
    /\ l2_pc = "candidates"
    /\ image = NoImage
    /\ reference_hash = NoHash
    /\ results = [t \in Tasks |-> Outcome("pending", TaskDefault(t))]
    /\ suspicious_regions \in CandidateLists
    /\ analysis = ForensicAnalysisDefault
    /\ l2_failed = {}

\* merged_regions = self._merge_overlapping_regions(suspicious_regions)
MergeSuspiciousRegions ==
    /\ l2_pc = "candidates"
    /\ suspicious_regions' = MergeOverlappingRegions(suspicious_regions)
    /\ l2_pc' = "merged"
    /\ UNCHANGED <<image, reference_hash, results, analysis, l2_failed>>
    /\ UNCHANGED <<fusionVars, qrVars>>

NextRegions == MergeSuspiciousRegions

SpecRegions == InitRegions /\ [][NextRegions]_vars

-----------------------------------------------------------------------------
(* Properties of region merging *)

\* two boxes share an area
ShareArea(a, b) ==
    /\ a[1] < b[3] /\ b[1] < a[3]
    /\ a[2] < b[4] /\ b[2] < a[4]

\* C26: the list that suspicious-region merging returns contains no two boxes
\* that overlap each other, and merging it a second time changes nothing.
C26_MergedRegionsDisjoint ==
    (l2_pc = "merged") =>
        /\ \A m, n \in 1..Len(suspicious_regions) :
               m # n => ~ShareArea(suspicious_regions[m], suspicious_regions[n])
        /\ MergeOverlappingRegions(suspicious_regions) = suspicious_regions

\* C26, the second half alone: merging the merged list again changes nothing.
C26_MergingTwiceChangesNothing ==
    (l2_pc = "merged") =>
        MergeOverlappingRegions(suspicious_regions) = suspicious_regions

\* C26, for neighbours: a box of the merged list does not overlap the box before it.
C26_NeighboursDisjoint ==
    (l2_pc = "merged") =>
        \A m \in 1..(Len(suspicious_regions) - 1) :
            ~RegionsOverlap(suspicious_regions[m + 1], suspicious_regions[m])

-----------------------------------------------------------------------------
(* Properties of the stored attestation *)

\* C27: a stored attestation record is self-consistent: the payload it stores is
\* the payload that was signed, so serializing the stored payload again and
\* verifying the stored signature with the stored public key succeeds.
C27_StoredAttestationVerifies ==
    \A n \in DOMAIN attestations :
        /\ B64Decode(attestations[n].signature).data = PayloadStr(attestations[n].payload)
        /\ VerifyAttestationSignature(attestations[n])

\* C27, what the code does keep: the stored signature is the signature of the
\* QR payload that generate_certificate_qr built, under the stored public key.
C27_StoredSignatureIsOfQRPayload ==
    \A n \in DOMAIN attestations :
        VerifySignature(
            PayloadStr(CreateQRPayloadOfDict(attestations[n].payload, "default")),
            attestations[n].signature, attestations[n].public_key)

\* the row of table "verifications" stored last for the verification id
FinalVerificationRow == verifications[Len(verifications)]

\* verify_certificate has ended: it returned its response or raised
Ended == pc \in {"returned", "raised"}

\* C28: an attestation record exists for a verification id only if the
\* verification record finally stored for that id has status Verified: no
\* attestation is generated for another status, and when the attempt has ended
\* no attestation stands beside a Failed or missing verification record.
C28_AttestationOnlyBesideVerified ==
    /\ attestations # <<>> => decision.status = VerificationStatus.VERIFIED
    /\ (Ended /\ attestations # <<>>) =>
          /\ verifications # <<>>
          /\ FinalVerificationRow.status = VerificationStatus.VERIFIED

\* C28, the first half alone: an attestation is generated only for a decision
\* with status Verified.
C28_AttestationOnlyWhenVerified ==
    attestations # <<>> => decision.status = VerificationStatus.VERIFIED

-----------------------------------------------------------------------------
(* Properties of the decision: review flag and escalation reasons *)

\* C29 as claimed: every decision with requires_manual_review = true carries at
\* least one escalation reason, and requires_manual_review is false exactly when
\* the status is Verified.
C29_ReviewCarriesReason ==
    Decided =>
        /\ decision.requires_manual_review => decision.escalation_reasons # <<>>
        /\ ~decision.requires_manual_review
              <=> decision.status = VerificationStatus.VERIFIED

\* C29: a decision with requires_manual_review = true carries at least one
\* escalation reason unless it is a RequiresReview decision for confidence >= 0.6,
\* a database match and a risk level that is neither high nor critical; and
\* requires_manual_review is false exactly when the status is Verified.
C29_ReviewCarriesReasonOrDefault ==
    Decided =>
        /\ (decision.requires_manual_review /\ decision.escalation_reasons = <<>>) =>
              /\ decision.status = VerificationStatus.REQUIRES_REVIEW
              /\ risk.confidence >= Pct(60)
              /\ db_check.match_found
              /\ risk.risk_level \notin {RiskLevel.HIGH, RiskLevel.CRITICAL}
        /\ ~decision.requires_manual_review
              <=> decision.status = VerificationStatus.VERIFIED

C29_Witness ==
    /\ Decided
    /\ decision.status = VerificationStatus.REQUIRES_REVIEW
    /\ decision.requires_manual_review
    /\ decision.escalation_reasons = <<>>
    /\ risk.risk_level = RiskLevel.MEDIUM

\* C30: in the image pipeline a Verified status implies a database match with no
\* discrepancies, at least one seal and at least one signature, a valid QR
\* signature reported by the seal and signature layer, tamper_probability <= 0.5,
\* no tamper type, a hash_match that is not false, and risk level low.
C30_VerifiedImpliesCleanLayers ==
    (decision.status = VerificationStatus.VERIFIED) =>
        /\ db_check.match_found
        /\ db_check.discrepancies = <<>>
        /\ l3.seals_detected >= 1
        /\ l3.signatures_detected >= 1
        /\ l3.qr_signature_valid = "True"
        /\ l2.tamper_probability <= Pct(50)
        /\ l2.tamper_types = {}
        /\ l2.hash_match # "False"
        /\ risk.risk_level = RiskLevel.LOW

C30_Witness ==
    /\ pc = "returned"
    /\ decision.status = VerificationStatus.VERIFIED
    /\ risk.risk_factors = <<>>
    /\ l3.seals_detected >= 1

-----------------------------------------------------------------------------
(* Risk scoring on its own: _calculate_enhanced_risk_score applied to every    *)
(* combination of the layer results below, and _calculate_risk_score_manual    *)
(* applied to the fields of a manual request                                   *)

\* every QRIntegrityCheck by its flags
QRChecks ==
    [qr_detected : BOOLEAN, qr_decoded : BOOLEAN, signature_valid : BOOLEAN,
     issuer_verified : BOOLEAN, certificate_id_match : BOOLEAN,
     issue_date_match : BOOLEAN, error_message : {None}]

\* the fields _calculate_risk_score_manual counts
ManualFields == {"name", "institution", "course_name"}

\* request.manual_fields or ExtractedFields()
ManualRequests ==
    {ExtractedFields(present, <<>>, "manual_override", None, FALSE) :
        present \in SUBSET ManualFields}

\* RiskScore.fusion_weights left at its default, the empty dict
NoWeights == [k \in {} |-> 0]

\* _calculate_risk_score_manual: RiskScore(overall_score, confidence, risk_level);
\* the keyword factors is not a field of RiskScore and is dropped
CalculateRiskScoreManual(fields, db) ==
    LET extraction_confidence ==
            (Cardinality(fields.present \cap ManualFields) * One) \div 3
        database_match == IF db.match_found THEN db.confidence ELSE 0
        overall_score == (extraction_confidence + database_match) \div 2
    IN  [extraction_confidence |-> 0, database_match_score |-> 0, forensic_score |-> 0,
         signature_score |-> 0, qr_integrity_score |-> 0,
         overall_score |-> Weighted(overall_score),
         confidence |-> overall_score,
         risk_level |-> IF overall_score >= Pct(80) THEN RiskLevel.LOW
                        ELSE IF overall_score >= Pct(60) THEN RiskLevel.MEDIUM
                        ELSE RiskLevel.HIGH,
         risk_factors |-> <<>>, authenticity_indicators |-> <<>>,
         fusion_weights |-> NoWeights]

InitRisk ==
    /\ \/ /\ pc = "risk"
          /\ l1 \in ExtractionResults
          /\ l2 \in ForensicReports \cup {ForensicAnalysisFailure}
          /\ l3 \in SignatureResults
          /\ qr \in QRChecks
       \/ /\ pc = "manual_risk"
          /\ l1 \in ManualRequests
          /\ l2 = ForensicAnalysis(0, None, {})
          /\ l3 = SignatureVerificationDefault
          /\ qr = QRIntegrityCheckDefault
    /\ db_check \in DatabaseResults
    /\ risk = NoRiskScore
    /\ decision = NoDecision
    /\ attestation = None
    /\ verifications = <<>>
    /\ attestations = <<>>
    /\ done = Stages
    /\ failed = {}
    /\ ForensicsIdle
    /\ QRServiceIdle

\* verify_certificate_by_data: risk_score = await self._calculate_risk_score_manual(...)
CalculateManualRiskScore ==
    /\ pc = "manual_risk"
    /\ risk' = CalculateRiskScoreManual(l1, db_check)
    /\ pc' = "manual_decide"
    /\ UNCHANGED <<l1, l2, l3, qr, db_check, decision, attestation,
                   verifications, attestations, done, failed>>
    /\ UNCHANGED serviceVars

NextRisk ==
    \/ CalculateRiskScore
    \/ CalculateManualRiskScore

SpecRisk == InitRisk /\ [][NextRisk]_vars

-----------------------------------------------------------------------------
(* Properties of risk scoring *)

\* a RiskScore has been produced: by the image pipeline, by the manual-data path
Assessed == pc \in {"decide", "manual_decide"}

\* the RiskScore comes from the try block of _calculate_enhanced_risk_score
Computed == pc = "decide" /\ risk # RiskScoreFallback

\* 1 if b, else 0
Indicator(b) == IF b THEN 1 ELSE 0

\* the QR integrity score that C21 states, from the flags of the check
ExpectedQRScore(q) ==
    IF ~q.qr_detected THEN Pct(50)
    ELSE IF ~q.qr_decoded THEN Pct(20)
    ELSE Min(One, Pct(50) + Pct(30) * Indicator(q.signature_valid)
                          + Pct(20) * Indicator(q.issuer_verified)
                          + Pct(10) * Indicator(q.certificate_id_match)
                          + Pct(10) * Indicator(q.issue_date_match))

\* C21: the QR integrity score is 0.5 when no code is detected, 0.2 when a code is
\* detected but not decoded, otherwise min(1, 0.5 + 0.3 [signature valid]
\* + 0.2 [issuer verified] + 0.1 [certificate id matches] + 0.1 [issue date
\* matches]); it lies in [0,1], and it is the qr_integrity_score of the RiskScore.
C21_QRIntegrityScore ==
    /\ CalculateQRIntegrityScore(qr) = ExpectedQRScore(qr)
    /\ InUnit(CalculateQRIntegrityScore(qr))
    /\ Computed => risk.qr_integrity_score = ExpectedQRScore(qr)

C21_Witness ==
    /\ Computed
    /\ qr.qr_decoded /\ qr.signature_valid /\ qr.issuer_verified
    /\ qr.certificate_id_match /\ qr.issue_date_match
    /\ risk.qr_integrity_score = One

\* the confidence that C22 states, from the scores of the RiskScore
ExpectedConfidence(r) ==
    Max(Pct(10),
        One - Pct(20) * Indicator(Abs(Weighted(r.forensic_score) - r.overall_score)
                                      > Weighted(Pct(30)))
            - Pct(20) * Indicator(Abs(Weighted(r.signature_score) - r.overall_score)
                                      > Weighted(Pct(30)))
            - Pct(10) * Indicator(/\ r.qr_integrity_score > Pct(50)
                                  /\ Abs(Weighted(r.qr_integrity_score) - r.overall_score)
                                         > Weighted(Pct(40))))

\* C22: the confidence of every RiskScore, the one of a failed risk scoring
\* included, is max(0.1, 1 - 0.2 [forensic and overall differ by more than 0.3]
\* - 0.2 [signature and overall differ by more than 0.3] - 0.1 [QR score above
\* 0.5 and differing from overall by more than 0.4]).
C22_Confidence ==
    (pc = "decide") => risk.confidence = ExpectedConfidence(risk)

\* C22, for the RiskScores that risk scoring computed: the confidence is the
\* stated function of the scores.
C22_ComputedConfidence ==
    Computed => risk.confidence = ExpectedConfidence(risk)

\* the sum of the weights of a RiskScore
SumWeights(w) ==
    IF DOMAIN w = {} THEN 0
    ELSE w.extraction_confidence + w.database_match + w.forensic_score
         + w.signature_score + w.qr_integrity

\* C23: every RiskScore reports the weights extraction 0.25, database match 0.30,
\* forensic 0.25, signature 0.15, QR 0.05, which sum to 1.0, and its
\* overall_score lies in [0,1].
C23_FixedWeights ==
    Assessed =>
        /\ risk.fusion_weights =
              [extraction_confidence |-> 25, database_match |-> 30,
               forensic_score |-> 25, signature_score |-> 15, qr_integrity |-> 5]
        /\ SumWeights(risk.fusion_weights) = 100
        /\ 0 <= risk.overall_score /\ risk.overall_score <= Weighted(One)

\* C23, for the image pipeline: the RiskScore of _calculate_enhanced_risk_score,
\* computed or not, reports the stated weights, and overall_score lies in [0,1].
C23_PipelineWeights ==
    (pc = "decide") =>
        /\ risk.fusion_weights = fusion_weights
        /\ SumWeights(risk.fusion_weights) = 100
        /\ 0 <= risk.overall_score /\ risk.overall_score <= Weighted(One)

\* the risk level that C24 states for an overall score
ExpectedRiskLevel(overall_score) ==
    IF overall_score >= Weighted(Pct(80)) THEN RiskLevel.LOW
    ELSE IF overall_score >= Weighted(Pct(60)) THEN RiskLevel.MEDIUM
    ELSE IF overall_score >= Weighted(Pct(40)) THEN RiskLevel.HIGH
    ELSE RiskLevel.CRITICAL

\* C24: in every RiskScore, of the image pipeline, of its error fallback and of
\* the manual-data path, risk_level is Low iff overall >= 0.8, Medium iff
\* 0.6 <= overall < 0.8, High iff 0.4 <= overall < 0.6, Critical iff overall < 0.4.
C24_RiskLevelFunction ==
    Assessed => risk.risk_level = ExpectedRiskLevel(risk.overall_score)

\* C24, for the image pipeline and its error fallback: risk_level is the stated
\* function of overall_score.
C24_PipelineRiskLevel ==
    (pc = "decide") => risk.risk_level = ExpectedRiskLevel(risk.overall_score)

=============================================================================
